---------------------------- MODULE Spec2Model ----------------------------
(***************************************************************************)
(* A model of the gophpparser front end: the byte-level Lexer, the Pratt / *)
(* recursive-descent Parser that pulls tokens from it, and the properties  *)
(* claimed of them.                                                        *)
(*                                                                         *)
(* Source text is a sequence of bytes (0..255).  A Lexer or Parser is a    *)
(* record with the fields of the Go struct; every Go method is an operator *)
(* from the receiver (and arguments) to the updated receiver and result.   *)
(* A Go panic is carried as the flag `panicked` of the result; the action  *)
(* that made the call then ends the run in pc = "panicked".                *)
(***************************************************************************)
EXTENDS Integers, Sequences, FiniteSets, TLC

VARIABLES
    l,        \* the Lexer object
    toks,     \* SpecLex: history of the results of NextToken, in call order
    p,        \* the Parser object (its lexer pointer is the variable l)
    program,  \* the Program under construction or under analysis: Statements
    sa,       \* the SemanticAnalyzer object
    visited,  \* visitProgram: the statements of program already visited
    pc        \* "lex" | "new" | "parse" | "done" | "panicked" | "analyze" | "validated"
              \* | "table" | "failed"

vars == <<l, toks, p, program, sa, visited, pc>>

-----------------------------------------------------------------------------
(* Bounds of the model *)

\* longest source text, in bytes, enumerated for the lexer
MaxLexLen == 3
\* calls of NextToken that are followed after the first EOF
MaxEofCalls == 2
\* longest source text, in lexemes, enumerated for the parser
MaxToks == 3
\* longest content, in bytes, of the string literals enumerated for the parser
MaxStringLen == 3
\* longest program, in top-level statements, enumerated for the semantic analyzer
MaxStatements == 4
\* longest program of declarations that open scopes, in top-level statements
MaxScopeStatements == 3
\* calls of the symbol table that are followed when it is driven call by call
MaxCalls == 5

-----------------------------------------------------------------------------
(* Bytes and strings *)

ByteOf ==
    ("\t" :> 9) @@ ("\n" :> 10) @@ ("\r" :> 13) @@ (" " :> 32) @@ ("!" :> 33) @@ ("\"" :> 34) @@
    ("#" :> 35) @@ ("$" :> 36) @@ ("%" :> 37) @@ ("&" :> 38) @@ ("'" :> 39) @@ ("(" :> 40) @@
    (")" :> 41) @@ ("*" :> 42) @@ ("+" :> 43) @@ ("," :> 44) @@ ("-" :> 45) @@ ("." :> 46) @@
    ("/" :> 47) @@ ("0" :> 48) @@ ("1" :> 49) @@ ("2" :> 50) @@ ("3" :> 51) @@ ("4" :> 52) @@
    ("5" :> 53) @@ ("6" :> 54) @@ ("7" :> 55) @@ ("8" :> 56) @@ ("9" :> 57) @@ (":" :> 58) @@
    (";" :> 59) @@ ("<" :> 60) @@ ("=" :> 61) @@ (">" :> 62) @@ ("?" :> 63) @@ ("A" :> 65) @@ ("H" :> 72) @@
    ("Z" :> 90) @@ ("[" :> 91) @@ ("\\" :> 92) @@ ("]" :> 93) @@ ("_" :> 95) @@ ("a" :> 97) @@
    ("b" :> 98) @@ ("c" :> 99) @@ ("d" :> 100) @@ ("e" :> 101) @@ ("f" :> 102) @@ ("g" :> 103) @@
    ("h" :> 104) @@ ("i" :> 105) @@ ("j" :> 106) @@ ("k" :> 107) @@ ("l" :> 108) @@ ("m" :> 109) @@
    ("n" :> 110) @@ ("o" :> 111) @@ ("p" :> 112) @@ ("q" :> 113) @@ ("r" :> 114) @@ ("s" :> 115) @@
    ("t" :> 116) @@ ("u" :> 117) @@ ("v" :> 118) @@ ("w" :> 119) @@ ("x" :> 120) @@ ("y" :> 121) @@
    ("z" :> 122) @@ ("{" :> 123) @@ ("|" :> 124) @@ ("}" :> 125)

B(c) == ByteOf[c]

\* the Go string written as a tuple of one-character strings
S(cs) == [i \in 1..Len(cs) |-> ByteOf[cs[i]]]

\* s[a:b] of Go, 0-based and half-open; it panics unless 0 <= a <= b <= len(s)
SlicePanics(s, a, b) == a < 0 \/ a > b \/ b > Len(s)

Slice(s, a, b) == IF SlicePanics(s, a, b) THEN <<>> ELSE SubSeq(s, a + 1, b)

-----------------------------------------------------------------------------
(* token.go *)

keywords ==
    (S(<<"f","u","n","c","t","i","o","n">>) :> "FUNCTION") @@
    (S(<<"c","l","a","s","s">>) :> "CLASS") @@
    (S(<<"i","f">>) :> "IF") @@
    (S(<<"e","l","s","e">>) :> "ELSE") @@
    (S(<<"e","l","s","e","i","f">>) :> "ELSEIF") @@
    (S(<<"w","h","i","l","e">>) :> "WHILE") @@
    (S(<<"f","o","r">>) :> "FOR") @@
    (S(<<"f","o","r","e","a","c","h">>) :> "FOREACH") @@
    (S(<<"r","e","t","u","r","n">>) :> "RETURN") @@
    (S(<<"e","c","h","o">>) :> "ECHO") @@
    (S(<<"p","r","i","n","t">>) :> "PRINT") @@
    (S(<<"v","a","r">>) :> "VAR") @@
    (S(<<"p","u","b","l","i","c">>) :> "PUBLIC") @@
    (S(<<"p","r","i","v","a","t","e">>) :> "PRIVATE") @@
    (S(<<"p","r","o","t","e","c","t","e","d">>) :> "PROTECTED") @@
    (S(<<"s","t","a","t","i","c">>) :> "STATIC") @@
    (S(<<"c","o","n","s","t">>) :> "CONST") @@
    (S(<<"n","e","w">>) :> "NEW") @@
    (S(<<"e","x","t","e","n","d","s">>) :> "EXTENDS") @@
    (S(<<"i","m","p","l","e","m","e","n","t","s">>) :> "IMPLEMENTS") @@
    (S(<<"i","n","t","e","r","f","a","c","e">>) :> "INTERFACE") @@
    (S(<<"n","a","m","e","s","p","a","c","e">>) :> "NAMESPACE") @@
    (S(<<"u","s","e">>) :> "USE") @@
    (S(<<"r","e","q","u","i","r","e">>) :> "REQUIRE") @@
    (S(<<"i","n","c","l","u","d","e">>) :> "INCLUDE") @@
    (S(<<"t","r","u","e">>) :> "TRUE") @@
    (S(<<"f","a","l","s","e">>) :> "FALSE") @@
    (S(<<"n","u","l","l">>) :> "NULL") @@
    (S(<<"a","r","r","a","y">>) :> "ARRAY") @@
    (S(<<"b","r","e","a","k">>) :> "BREAK") @@
    (S(<<"c","o","n","t","i","n","u","e">>) :> "CONTINUE") @@
    (S(<<"d","o">>) :> "DO") @@
    (S(<<"a","s">>) :> "AS") @@
    (S(<<"t","r","y">>) :> "TRY") @@
    (S(<<"c","a","t","c","h">>) :> "CATCH") @@
    (S(<<"f","i","n","a","l","l","y">>) :> "FINALLY") @@
    (S(<<"t","h","r","o","w">>) :> "THROW") @@
    (S(<<"e","x","c","e","p","t","i","o","n">>) :> "EXCEPTION") @@
    (S(<<"c","l","o","s","u","r","e">>) :> "CLOSURE") @@
    (S(<<"y","i","e","l","d">>) :> "YIELD") @@
    (S(<<"t","r","a","i","t">>) :> "TRAIT") @@
    (S(<<"a","b","s","t","r","a","c","t">>) :> "ABSTRACT") @@
    (S(<<"f","i","n","a","l">>) :> "FINAL") @@
    (S(<<"g","l","o","b","a","l">>) :> "GLOBAL") @@
    (S(<<"l","i","s","t">>) :> "LIST") @@
    (S(<<"u","n","s","e","t">>) :> "UNSET") @@
    (S(<<"i","s","s","e","t">>) :> "ISSET") @@
    (S(<<"e","m","p","t","y">>) :> "EMPTY") @@
    (S(<<"c","l","o","n","e">>) :> "CLONE") @@
    (S(<<"i","n","s","t","a","n","c","e","o","f">>) :> "INSTANCEOF") @@
    (S(<<"m","a","t","c","h">>) :> "MATCH") @@
    (S(<<"i","n","c","l","u","d","e","_","o","n","c","e">>) :> "INCLUDE_ONCE") @@
    (S(<<"r","e","q","u","i","r","e","_","o","n","c","e">>) :> "REQUIRE_ONCE") @@
    (S(<<"f","n">>) :> "ARROW_FUNCTION")

LookupIdent(ident) == IF ident \in DOMAIN keywords THEN keywords[ident] ELSE "IDENT"

\* Token{Type, Literal, Line, Column}; the Position field is never set by the lexer
Token(type, literal, line, column) ==
    [Type |-> type, Literal |-> literal, Line |-> line, Column |-> column]

NoToken == Token("ILLEGAL", <<>>, 0, 0)

-----------------------------------------------------------------------------
(* lexer.go *)

isLetter(ch) ==
    \/ B("a") <= ch /\ ch <= B("z")
    \/ B("A") <= ch /\ ch <= B("Z")
    \/ ch = B("_")
    \/ ch > 127

isDigit(ch) == B("0") <= ch /\ ch <= B("9")

newToken(tokenType, ch, line, column) == Token(tokenType, <<ch>>, line, column)

\* call(name, a) is the call of the Lexer or Parser method name with the arguments a;
\* the methods call each other through it
RECURSIVE call(_, _)

readChar(lx) ==
    LET ch == IF lx.readPosition >= Len(lx.input) THEN 0 ELSE lx.input[lx.readPosition + 1]
    IN  [lx EXCEPT !.ch = ch,
                   !.position = lx.readPosition,
                   !.readPosition = lx.readPosition + 1,
                   !.line = IF ch = B("\n") THEN lx.line + 1 ELSE lx.line,
                   !.column = IF ch = B("\n") THEN 0 ELSE lx.column + 1]

New(input) ==
    call("readChar", <<[input |-> input, position |-> 0, readPosition |-> 0, ch |-> 0,
              line |-> 1, column |-> 0]>>)

peekChar(lx) ==
    IF lx.readPosition >= Len(lx.input) THEN 0 ELSE lx.input[lx.readPosition + 1]

peekCharAt(lx, offset) ==
    LET pos == lx.readPosition + offset
    IN  IF pos >= Len(lx.input) THEN 0 ELSE lx.input[pos + 1]

skipWhitespace(lx) ==
    IF lx.ch = B(" ") \/ lx.ch = B("\t") \/ lx.ch = B("\n") \/ lx.ch = B("\r")
    THEN call("skipWhitespace", <<call("readChar", <<lx>>)>>)
    ELSE lx

readIdentifierLoop(lx) ==
    IF isLetter(lx.ch) \/ isDigit(lx.ch) THEN call("readIdentifierLoop", <<call("readChar", <<lx>>)>>) ELSE lx

\* the result of a lexer method: the value it returns, the lexer after the call and
\* whether the call panicked
LexRes(val, lx, panicked) == [val |-> val, l |-> lx, panicked |-> panicked]

readIdentifier(lx) ==
    LET l1 == call("readIdentifierLoop", <<lx>>)
    IN  LexRes(Slice(lx.input, lx.position, l1.position), l1,
               SlicePanics(lx.input, lx.position, l1.position))

readDigits(lx) == IF isDigit(lx.ch) THEN call("readDigits", <<call("readChar", <<lx>>)>>) ELSE lx

readNumber(lx) ==
    LET l1 == call("readDigits", <<lx>>)
        isFloat == l1.ch = B(".") /\ isDigit(peekChar(l1))
        l2 == IF isFloat THEN call("readDigits", <<call("readChar", <<l1>>)>>) ELSE l1
    IN  LexRes([tokenType |-> IF isFloat THEN "FLOAT" ELSE "INT",
                literal |-> Slice(lx.input, lx.position, l2.position)],
               l2, SlicePanics(lx.input, lx.position, l2.position))

readStringLoop(lx, delimiter) ==
    LET l1 == call("readChar", <<lx>>)
    IN  IF l1.ch = delimiter \/ l1.ch = 0 THEN l1
        ELSE IF l1.ch = B("\\") THEN call("readStringLoop", <<call("readChar", <<l1>>), delimiter>>)
        ELSE call("readStringLoop", <<l1, delimiter>>)

readString(lx, delimiter) ==
    LET position == lx.position + 1
        l1 == call("readStringLoop", <<lx, delimiter>>)
    IN  LexRes(Slice(lx.input, position, l1.position), l1,
               SlicePanics(lx.input, position, l1.position))

skipLineComment(lx) ==
    IF lx.ch # B("\n") /\ lx.ch # 0 THEN call("skipLineComment", <<call("readChar", <<lx>>)>>) ELSE lx

skipBlockComment(lx) ==
    IF lx.ch = 0 THEN lx
    ELSE IF lx.ch = B("*") /\ peekChar(lx) = B("/") THEN call("readChar", <<call("readChar", <<lx>>)>>)
    ELSE call("skipBlockComment", <<call("readChar", <<lx>>)>>)

skipComment(lx) ==
    IF lx.ch = B("/") /\ peekChar(lx) = B("/") THEN call("skipLineComment", <<lx>>)
    ELSE IF lx.ch = B("/") /\ peekChar(lx) = B("*")
         THEN call("skipBlockComment", <<call("readChar", <<call("readChar", <<lx>>)>>)>>)
    ELSE IF lx.ch = B("#") THEN call("skipLineComment", <<lx>>)
    ELSE lx

\* a token made of the current and the next character, positioned after the advance
twoCharToken(lx, tokenType) ==
    LET l1 == call("readChar", <<lx>>)
    IN  [tok |-> Token(tokenType, <<lx.ch, l1.ch>>, l1.line, l1.column), l |-> l1]

oneCharToken(lx, tokenType) ==
    [tok |-> newToken(tokenType, lx.ch, lx.line, lx.column), l |-> lx]

\* case '='
lexAssign(lx) ==
    IF peekChar(lx) = B("=") THEN call("twoCharToken", <<lx, "EQ">>)
    ELSE IF peekChar(lx) = B(">") THEN call("twoCharToken", <<lx, "DOUBLE_ARROW">>)
    ELSE call("oneCharToken", <<lx, "ASSIGN">>)

\* case '+'
lexPlus(lx) ==
    IF peekChar(lx) = B("+") THEN call("twoCharToken", <<lx, "INCREMENT">>)
    ELSE call("oneCharToken", <<lx, "PLUS">>)

\* case '-'
lexMinus(lx) ==
    IF peekChar(lx) = B(">") THEN call("twoCharToken", <<lx, "OBJECT_ACCESS">>)
    ELSE call("oneCharToken", <<lx, "MINUS">>)

\* case '!'
lexNot(lx) ==
    IF peekChar(lx) = B("=") THEN call("twoCharToken", <<lx, "NOT_EQ">>)
    ELSE call("oneCharToken", <<lx, "NOT">>)

\* case '<', the mutation that tests for "<=" before "<=>"
lexLessShortestFirst(lx) ==
    IF peekChar(lx) = B("=") THEN call("twoCharToken", <<lx, "LTE">>)
    ELSE call("oneCharToken", <<lx, "LT">>)

\* case '<'
lexLess(lx) ==
    IF peekChar(lx) = B("=") /\ peekCharAt(lx, 1) = B(">")
    THEN LET l2 == call("readChar", <<call("readChar", <<lx>>)>>)
         IN  [tok |-> Token("SPACESHIP", <<lx.ch>> \o S(<<"=", ">">>), l2.line, l2.column),
              l |-> l2]
    ELSE IF peekChar(lx) = B("=") THEN call("twoCharToken", <<lx, "LTE">>)
    ELSE IF peekChar(lx) = B("?")
    THEN LET l1 == call("readChar", <<lx>>)
             l2 == call("readChar", <<l1>>)
             l3 == call("readChar", <<l2>>)
             l4 == call("readChar", <<l3>>)
         IN  IF peekChar(l1) = B("p")
             THEN IF peekChar(l2) = B("h")
                  THEN IF peekChar(l3) = B("p")
                       THEN [tok |-> Token("PHP_OPEN", S(<<"<", "?", "p", "h", "p">>),
                                           l4.line, l4.column),
                             l |-> l4]
                       ELSE [tok |-> newToken("LT", lx.ch, l3.line, l3.column), l |-> l3]
                  ELSE [tok |-> newToken("LT", lx.ch, l2.line, l2.column), l |-> l2]
             ELSE [tok |-> newToken("LT", lx.ch, l1.line, l1.column), l |-> l1]
    ELSE call("oneCharToken", <<lx, "LT">>)

\* case '>'
lexGreater(lx) ==
    IF peekChar(lx) = B("=") THEN call("twoCharToken", <<lx, "GTE">>)
    ELSE call("oneCharToken", <<lx, "GT">>)

\* case '&'
lexAmpersand(lx) ==
    IF peekChar(lx) = B("&") THEN call("twoCharToken", <<lx, "AND">>)
    ELSE call("oneCharToken", <<lx, "ILLEGAL">>)

\* case '|'
lexPipe(lx) ==
    IF peekChar(lx) = B("|") THEN call("twoCharToken", <<lx, "OR">>)
    ELSE call("oneCharToken", <<lx, "ILLEGAL">>)

\* case '?'
lexQuestion(lx) ==
    IF peekChar(lx) = B(">") THEN call("twoCharToken", <<lx, "PHP_CLOSE">>)
    ELSE IF peekChar(lx) = B("?")
    THEN LET l1 == call("readChar", <<lx>>)
             l2 == call("readChar", <<l1>>)
         IN  IF peekChar(l1) = B("=")
             THEN [tok |-> Token("QUESTION_QUESTION_ASSIGN", <<lx.ch>> \o S(<<"?", "=">>),
                                 l2.line, l2.column),
                   l |-> l2]
             ELSE [tok |-> Token("QUESTION_QUESTION", <<lx.ch, l1.ch>>, l1.line, l1.column),
                   l |-> l1]
    ELSE IF peekChar(lx) = B("-") /\ peekCharAt(lx, 1) = B(">")
    THEN LET l2 == call("readChar", <<call("readChar", <<lx>>)>>)
         IN  [tok |-> Token("QUESTION_ARROW", <<lx.ch>> \o S(<<"-", ">">>), l2.line, l2.column),
              l |-> l2]
    ELSE call("oneCharToken", <<lx, "QUESTION">>)

\* case ':'
lexColon(lx) ==
    IF peekChar(lx) = B(":") THEN call("twoCharToken", <<lx, "STATIC_ACCESS">>)
    ELSE call("oneCharToken", <<lx, "COLON">>)

\* the single-character tokens of the switch
SingleCharTokens ==
    (B("*") :> "MULTIPLY") @@ (B("%") :> "MODULO") @@ (B(".") :> "CONCAT") @@
    (B(",") :> "COMMA") @@ (B(";") :> "SEMICOLON") @@ (B("(") :> "LPAREN") @@
    (B(")") :> "RPAREN") @@ (B("{") :> "LBRACE") @@ (B("}") :> "RBRACE") @@
    (B("[") :> "LBRACKET") @@ (B("]") :> "RBRACKET") @@ (B("\\") :> "NAMESPACE_SEPARATOR")

\* NextToken returns [tok, l, panicked, start]: the token, the lexer after the call,
\* whether the call panicked, and (for the properties only) the offset of the byte
\* the switch dispatched on
NextToken(lx0) ==
    LET lx == call("skipWhitespace", <<lx0>>)
        ch == lx.ch
        \* the cases that fall out of the switch: l.readChar(); return tok
        break(r) == [tok |-> r.tok, l |-> call("readChar", <<r.l>>), panicked |-> FALSE,
                     start |-> lx.position]
        return(tok, l1, panicked) ==
            [tok |-> tok, l |-> l1, panicked |-> panicked, start |-> lx.position]
    IN  CASE ch = B("=") -> break(call("lexAssign", <<lx>>))
          [] ch = B("+") -> break(call("lexPlus", <<lx>>))
          [] ch = B("-") -> break(call("lexMinus", <<lx>>))
          [] ch = B("/") ->
                IF peekChar(lx) = B("/") THEN call("NextToken", <<call("skipComment", <<lx>>)>>)
                ELSE break(call("oneCharToken", <<lx, "DIVIDE">>))
          [] ch = B("!") -> break(call("lexNot", <<lx>>))
          [] ch = B("<") -> break(call("lexLess", <<lx>>))
          [] ch = B(">") -> break(call("lexGreater", <<lx>>))
          [] ch = B("&") -> break(call("lexAmpersand", <<lx>>))
          [] ch = B("|") -> break(call("lexPipe", <<lx>>))
          [] ch = B("?") -> break(call("lexQuestion", <<lx>>))
          [] ch = B(":") -> break(call("lexColon", <<lx>>))
          [] ch \in DOMAIN SingleCharTokens -> break(call("oneCharToken", <<lx, SingleCharTokens[ch]>>))
          [] ch = B("\"") \/ ch = B("'") ->
                LET r == call("readString", <<lx, ch>>)
                IN  [tok |-> Token("STRING", r.val, r.l.line, r.l.column),
                     l |-> call("readChar", <<r.l>>), panicked |-> r.panicked, start |-> lx.position]
          [] ch = B("$") ->
                LET r == call("readIdentifier", <<call("readChar", <<lx>>)>>)
                IN  return(Token("VARIABLE", <<B("$")>> \o r.val, r.l.line, r.l.column),
                           r.l, r.panicked)
          [] ch = 0 -> break([tok |-> Token("EOF", <<>>, lx.line, lx.column), l |-> lx])
          [] OTHER ->
                IF isLetter(ch)
                THEN LET r == call("readIdentifier", <<lx>>)
                     IN  return(Token(LookupIdent(r.val), r.val, lx.line, lx.column),
                                r.l, r.panicked)
                ELSE IF isDigit(ch)
                THEN LET r == call("readNumber", <<lx>>)
                     IN  return(Token(r.val.tokenType, r.val.literal, r.l.line, r.l.column),
                                r.l, r.panicked)
                ELSE break(call("oneCharToken", <<lx, "ILLEGAL">>))

-----------------------------------------------------------------------------
(* parser.go: the Parser, its token window and its error list *)

LOWEST == 1
TERNARY == 2
EQUALS == 3
LESSGREATER == 4
SUM == 5
PRODUCT == 6
PREFIX == 7
CALL == 8

\* the mutation that gives every binary operator the precedence of "+"
precedencesAllSum ==
    [t \in {"QUESTION", "QUESTION_QUESTION", "QUESTION_QUESTION_ASSIGN", "QUESTION_ARROW",
            "EQ", "NOT_EQ", "LT", "GT", "LTE", "GTE", "SPACESHIP", "PLUS", "MINUS",
            "CONCAT", "DIVIDE", "MULTIPLY", "MODULO", "LPAREN", "OBJECT_ACCESS",
            "STATIC_ACCESS"} |->
        IF t \in {"QUESTION_ARROW", "LPAREN", "OBJECT_ACCESS", "STATIC_ACCESS"} THEN CALL
        ELSE SUM]

precedences ==
    ("QUESTION" :> TERNARY) @@ ("QUESTION_QUESTION" :> EQUALS) @@
    ("QUESTION_QUESTION_ASSIGN" :> EQUALS) @@ ("QUESTION_ARROW" :> CALL) @@
    ("EQ" :> EQUALS) @@ ("NOT_EQ" :> EQUALS) @@
    ("LT" :> LESSGREATER) @@ ("GT" :> LESSGREATER) @@ ("LTE" :> LESSGREATER) @@
    ("GTE" :> LESSGREATER) @@ ("SPACESHIP" :> LESSGREATER) @@
    ("PLUS" :> SUM) @@ ("MINUS" :> SUM) @@ ("CONCAT" :> SUM) @@
    ("DIVIDE" :> PRODUCT) @@ ("MULTIPLY" :> PRODUCT) @@ ("MODULO" :> PRODUCT) @@
    ("LPAREN" :> CALL) @@ ("OBJECT_ACCESS" :> CALL) @@ ("STATIC_ACCESS" :> CALL)

\* NewParser: the keys of prefixParseFns and of infixParseFns, each with its handler
prefixParseFns ==
    ("IDENT" :> "parseIdentifier") @@ ("VARIABLE" :> "parseVariable") @@
    ("INT" :> "parseIntegerLiteral") @@ ("FLOAT" :> "parseFloatLiteral") @@
    ("STRING" :> "parseStringLiteral") @@ ("TRUE" :> "parseBooleanLiteral") @@
    ("FALSE" :> "parseBooleanLiteral") @@ ("NOT" :> "parsePrefixExpression") @@
    ("MINUS" :> "parsePrefixExpression") @@ ("INCREMENT" :> "parsePrefixExpression") @@
    ("DECREMENT" :> "parsePrefixExpression") @@ ("NEW" :> "parseNewExpression") @@
    ("FUNCTION" :> "parseAnonymousFunction") @@ ("YIELD" :> "parseYieldExpression") @@
    ("LPAREN" :> "parseGroupedExpression") @@ ("LBRACKET" :> "parseArrayLiteral")

infixParseFns ==
    ("PLUS" :> "parseInfixExpression") @@ ("MINUS" :> "parseInfixExpression") @@
    ("MULTIPLY" :> "parseInfixExpression") @@ ("DIVIDE" :> "parseInfixExpression") @@
    ("MODULO" :> "parseInfixExpression") @@ ("CONCAT" :> "parseInfixExpression") @@
    ("EQ" :> "parseInfixExpression") @@ ("NOT_EQ" :> "parseInfixExpression") @@
    ("LT" :> "parseInfixExpression") @@ ("GT" :> "parseInfixExpression") @@
    ("LTE" :> "parseInfixExpression") @@ ("GTE" :> "parseInfixExpression") @@
    ("SPACESHIP" :> "parseInfixExpression") @@ ("AND" :> "parseInfixExpression") @@
    ("OR" :> "parseInfixExpression") @@ ("QUESTION" :> "parseTernaryExpression") @@
    ("QUESTION_QUESTION" :> "parseInfixExpression") @@
    ("QUESTION_QUESTION_ASSIGN" :> "parseAssignmentExpression") @@
    ("QUESTION_ARROW" :> "parseObjectAccessExpression") @@
    ("ASSIGN" :> "parseAssignmentExpression") @@ ("LPAREN" :> "parseCallExpression") @@
    ("LBRACKET" :> "parseIndexExpression") @@ ("INCREMENT" :> "parsePostfixExpression") @@
    ("DECREMENT" :> "parsePostfixExpression") @@
    ("OBJECT_ACCESS" :> "parseObjectAccessExpression") @@
    ("STATIC_ACCESS" :> "parseStaticAccessExpression")

\* Inside the operators a parser is the record ps: the fields of Parser, the Lexer it
\* points to (l) and whether a call it made has panicked.  nextToken is the only place
\* the lexer is called.
nextToken(ps) ==
    LET r == call("NextToken", <<ps.l>>)
    IN  [ps EXCEPT !.curToken = ps.peekToken, !.peekToken = r.tok, !.l = r.l,
                   !.panicked = ps.panicked \/ r.panicked]

NewParser(lx) ==
    call("nextToken", <<call("nextToken", <<[l |-> lx, curToken |-> NoToken, peekToken |-> NoToken,
                         errors |-> <<>>, panicked |-> FALSE]>>)>>)

curTokenIs(ps, t) == ps.curToken.Type = t

peekTokenIs(ps, t) == ps.peekToken.Type = t

\* an error string: the format and the values printed into it
Error(format, args) == [format |-> format, args |-> args]

peekError(ps, t) ==
    [ps EXCEPT !.errors = Append(ps.errors,
        Error("expected next token to be %s, got %s instead", <<t, ps.peekToken.Type>>))]

noPrefixParseFnError(ps, t) ==
    [ps EXCEPT !.errors = Append(ps.errors,
        Error("no prefix parse function for %s found", <<t>>))]

addError(ps, msg) == [ps EXCEPT !.errors = Append(ps.errors, Error(msg, <<>>))]

expectPeek(ps, t) ==
    IF peekTokenIs(ps, t) THEN [ok |-> TRUE, p |-> call("nextToken", <<ps>>)]
    ELSE [ok |-> FALSE, p |-> peekError(ps, t)]

peekPrecedence(ps) ==
    IF ps.peekToken.Type \in DOMAIN precedences THEN precedences[ps.peekToken.Type]
    ELSE LOWEST

curPrecedence(ps) ==
    IF ps.curToken.Type \in DOMAIN precedences THEN precedences[ps.curToken.Type]
    ELSE LOWEST

-----------------------------------------------------------------------------
(* ast.go: a node is a record with the fields of its Go struct and its type as     *)
(* `kind`; the Token field, which no property reads, is left out.  A nil interface *)
(* value is Nil; a nil pointer of type T is NilOf(T), and stays distinct from Nil  *)
(* when it is stored in an interface.  Slices are sequences; the parser never      *)
(* tells a nil slice from an empty one, both are <<>>.                             *)

Nil == [kind |-> "nil", type |-> "untyped"]

NilOf(type) == [kind |-> "nil", type |-> type]

\* pointer == nil
IsNilPointer(n) == n.kind = "nil"

\* interface == nil: false of a nil pointer stored in the interface
IsNilInterface(n) == n = Nil

\* the result of a parse method: the node (or list) it returns and the parser after
R(n, ps) == [n |-> n, p |-> ps]

\* &Variable{Token: p.curToken, Name: p.curToken.Literal[1:]}; a VARIABLE token's
\* literal always starts with "$", so the slice cannot panic
VariableNode(tok) == [kind |-> "Variable", Name |-> Slice(tok.Literal, 1, Len(tok.Literal))]

IdentifierNode(tok) == [kind |-> "Identifier", Value |-> tok.Literal]

StringLiteralNode(value) == [kind |-> "StringLiteral", Value |-> value]

-----------------------------------------------------------------------------
(* parser.go: literals *)

\* strconv.ParseInt(s, 0, 64) on a run of decimal digits, which is all the lexer makes
\* an INT of: a leading "0" before more digits selects base 8.  The value is computed
\* for literals short enough not to overflow the checker's integers
RECURSIVE DigitsValue(_, _)
DigitsValue(digits, base) ==
    IF digits = <<>> THEN 0
    ELSE DigitsValue(SubSeq(digits, 1, Len(digits) - 1), base) * base
         + (digits[Len(digits)] - B("0"))

ParseInt(s) ==
    LET octal == Len(s) > 1 /\ s[1] = B("0")
        digits == IF octal THEN Tail(s) ELSE s
        base == IF octal THEN 8 ELSE 10
    IN  IF \E i \in DOMAIN digits : digits[i] - B("0") >= base
        THEN [err |-> TRUE, value |-> 0]
        ELSE [err |-> FALSE, value |-> DigitsValue(digits, base)]

parseIdentifier(ps) == R(IdentifierNode(ps.curToken), ps)

parseVariable(ps) == R(VariableNode(ps.curToken), ps)

parseIntegerLiteral(ps) ==
    LET r == ParseInt(ps.curToken.Literal)
    IN  IF r.err
        THEN R(Nil, [ps EXCEPT !.errors = Append(ps.errors,
                        Error("could not parse %q as integer", <<ps.curToken.Literal>>))])
        ELSE R([kind |-> "IntegerLiteral", Value |-> r.value], ps)

\* strconv.ParseFloat accepts every "digits.digits" the lexer makes a FLOAT of; the
\* value is kept as its text
parseFloatLiteral(ps) == R([kind |-> "FloatLiteral", Value |-> ps.curToken.Literal], ps)

parseBooleanLiteral(ps) == R([kind |-> "BooleanLiteral", Value |-> curTokenIs(ps, "TRUE")], ps)

\* strings.Split(s, sep) for a one-byte separator
RECURSIVE Split(_, _)
Split(s, sep) ==
    IF \A i \in DOMAIN s : s[i] # sep THEN <<s>>
    ELSE LET k == CHOOSE i \in DOMAIN s : s[i] = sep /\ \A j \in 1..(i - 1) : s[j] # sep
         IN  <<SubSeq(s, 1, k - 1)>> \o Split(SubSeq(s, k + 1, Len(s)), sep)

\* the j of parseInterpolatedString: the length of the identifier run that starts part
RECURSIVE identifierRun(_, _)
identifierRun(part, j) ==
    IF j < Len(part) /\ (isLetter(part[j + 1]) \/ (j > 0 /\ isDigit(part[j + 1])))
    THEN identifierRun(part, j + 1)
    ELSE j

\* the mutation that forgets the "$" of a part that names no variable
interpolatedPartBare(part) ==
    LET j == identifierRun(part, 0)
    IN  IF j > 0
        THEN <<[kind |-> "Variable", Name |-> SubSeq(part, 1, j)]>>
             \o (IF j < Len(part) THEN <<StringLiteralNode(SubSeq(part, j + 1, Len(part)))>>
                 ELSE <<>>)
        ELSE <<StringLiteralNode(part)>>

\* the nodes one part after a "$" contributes
interpolatedPart(part) ==
    LET j == identifierRun(part, 0)
    IN  IF j > 0
        THEN <<[kind |-> "Variable", Name |-> SubSeq(part, 1, j)]>>
             \o (IF j < Len(part) THEN <<StringLiteralNode(SubSeq(part, j + 1, Len(part)))>>
                 ELSE <<>>)
        ELSE <<StringLiteralNode(<<B("$")>> \o part)>>

RECURSIVE interpolatedParts(_, _)
interpolatedParts(parts, i) ==
    IF i > Len(parts) THEN <<>>
    ELSE interpolatedPart(parts[i]) \o interpolatedParts(parts, i + 1)

parseInterpolatedString(ps) ==
    LET parts == Split(ps.curToken.Literal, B("$"))
        first == IF parts[1] # <<>> THEN <<StringLiteralNode(parts[1])>> ELSE <<>>
    IN  R([kind |-> "InterpolatedString", Parts |-> first \o interpolatedParts(parts, 2)], ps)

parseStringLiteral(ps) ==
    IF \E i \in DOMAIN ps.curToken.Literal : ps.curToken.Literal[i] = B("$")
    THEN call("parseInterpolatedString", <<ps>>)
    ELSE R(StringLiteralNode(ps.curToken.Literal), ps)

-----------------------------------------------------------------------------
(* parser.go: expressions *)

parsePostfixExpression(ps, left) ==
    R([kind |-> "PostfixExpression", Left |-> left, Operator |-> ps.curToken.Literal], ps)

\* for !p.peekTokenIs(SEMICOLON) && precedence < p.peekPrecedence() { ... }
infixLoop(ps, leftExp, precedence) ==
    IF ~peekTokenIs(ps, "SEMICOLON") /\ precedence < peekPrecedence(ps)
    THEN IF ps.peekToken.Type \notin DOMAIN infixParseFns THEN R(leftExp, ps)
         ELSE LET r == call("infixFn", <<call("nextToken", <<ps>>), leftExp>>)
              IN  call("infixLoop", <<r.p, r.n, precedence>>)
    ELSE R(leftExp, ps)

parseExpression(ps, precedence) ==
    IF ps.curToken.Type \notin DOMAIN prefixParseFns
    THEN R(Nil, noPrefixParseFnError(ps, ps.curToken.Type))
    ELSE LET left == call("prefixFn", <<ps>>)
         IN  call("infixLoop", <<left.p, left.n, precedence>>)

\* prefix(): the handler registered for the current token
prefixFn(ps) ==
    LET fn == prefixParseFns[ps.curToken.Type]
    IN  CASE fn = "parseIdentifier" -> call("parseIdentifier", <<ps>>)
          [] fn = "parseVariable" -> call("parseVariable", <<ps>>)
          [] fn = "parseIntegerLiteral" -> call("parseIntegerLiteral", <<ps>>)
          [] fn = "parseFloatLiteral" -> call("parseFloatLiteral", <<ps>>)
          [] fn = "parseStringLiteral" -> call("parseStringLiteral", <<ps>>)
          [] fn = "parseBooleanLiteral" -> call("parseBooleanLiteral", <<ps>>)
          [] fn = "parsePrefixExpression" -> call("parsePrefixExpression", <<ps>>)
          [] fn = "parseNewExpression" -> call("parseNewExpression", <<ps>>)
          [] fn = "parseAnonymousFunction" -> call("parseAnonymousFunction", <<ps>>)
          [] fn = "parseYieldExpression" -> call("parseYieldExpression", <<ps>>)
          [] fn = "parseGroupedExpression" -> call("parseGroupedExpression", <<ps>>)
          [] fn = "parseArrayLiteral" -> call("parseArrayLiteral", <<ps>>)

\* infix(leftExp): the handler registered for the token just advanced onto
infixFn(ps, left) ==
    LET fn == infixParseFns[ps.curToken.Type]
    IN  CASE fn = "parseInfixExpression" -> call("parseInfixExpression", <<ps, left>>)
          [] fn = "parseTernaryExpression" -> call("parseTernaryExpression", <<ps, left>>)
          [] fn = "parseAssignmentExpression" -> call("parseAssignmentExpression", <<ps, left>>)
          [] fn = "parseObjectAccessExpression" -> call("parseObjectAccessExpression", <<ps, left>>)
          [] fn = "parseStaticAccessExpression" -> call("parseStaticAccessExpression", <<ps, left>>)
          [] fn = "parseCallExpression" -> call("parseCallExpression", <<ps, left>>)
          [] fn = "parseIndexExpression" -> call("parseIndexExpression", <<ps, left>>)
          [] fn = "parsePostfixExpression" -> call("parsePostfixExpression", <<ps, left>>)

parsePrefixExpression(ps) ==
    LET r == call("parseExpression", <<call("nextToken", <<ps>>), PREFIX>>)
    IN  R([kind |-> "PrefixExpression", Operator |-> ps.curToken.Literal, Right |-> r.n], r.p)

\* the mutation that lets an operator of the same precedence bind in the right operand
parseInfixExpressionRight(ps, left) ==
    LET r == call("parseExpression", <<call("nextToken", <<ps>>), curPrecedence(ps) - 1>>)
    IN  R([kind |-> "InfixExpression", Left |-> left, Operator |-> ps.curToken.Literal,
           Right |-> r.n], r.p)

parseInfixExpression(ps, left) ==
    LET r == call("parseExpression", <<call("nextToken", <<ps>>), curPrecedence(ps)>>)
    IN  R([kind |-> "InfixExpression", Left |-> left, Operator |-> ps.curToken.Literal,
           Right |-> r.n], r.p)

\* the mutation that takes any expression as the target of an assignment
parseAssignmentExpressionUnchecked(ps, left) ==
    LET r == call("parseExpression", <<call("nextToken", <<ps>>), LOWEST>>)
    IN  R([kind |-> "AssignmentExpression", Name |-> left, Value |-> r.n], r.p)

parseAssignmentExpression(ps, left) ==
    IF left.kind # "Variable"
    THEN R(Nil, addError(ps, "left side of assignment must be a variable"))
    ELSE LET r == call("parseExpression", <<call("nextToken", <<ps>>), LOWEST>>)
         IN  R([kind |-> "AssignmentExpression", Name |-> left, Value |-> r.n], r.p)

parseGroupedExpression(ps) ==
    LET r == call("parseExpression", <<call("nextToken", <<ps>>), LOWEST>>)
        e == call("expectPeek", <<r.p, "RPAREN">>)
    IN  IF ~e.ok THEN R(Nil, e.p) ELSE R(r.n, e.p)

parseCallExpression(ps, fn) ==
    LET r == call("parseExpressionList", <<ps, "RPAREN">>)
    IN  R([kind |-> "CallExpression", Function |-> fn, Arguments |-> r.n], r.p)

\* for p.peekTokenIs(COMMA) { p.nextToken(); p.nextToken(); append(parseExpression) }:
\* the loop of parseExpressionList, and the same loop of parseEchoStatement and of the
\* indexed branch of parseArrayLiteral
commaExpressions(ps, list) ==
    IF peekTokenIs(ps, "COMMA")
    THEN LET r == call("parseExpression", <<call("nextToken", <<call("nextToken", <<ps>>)>>), LOWEST>>)
         IN  call("commaExpressions", <<r.p, Append(list, r.n)>>)
    ELSE R(list, ps)

parseExpressionList(ps, end) ==
    IF peekTokenIs(ps, end) THEN R(<<>>, call("nextToken", <<ps>>))
    ELSE LET first == call("parseExpression", <<call("nextToken", <<ps>>), LOWEST>>)
             rest == call("commaExpressions", <<first.p, <<first.n>>>>)
             e == call("expectPeek", <<rest.p, end>>)
         IN  IF ~e.ok THEN R(<<>>, e.p) ELSE R(rest.n, e.p)

\* the loop over the remaining "key => value" pairs; n is Nil when a "=>" is missing
arrayPairs(ps, pairs) ==
    IF peekTokenIs(ps, "COMMA")
    THEN LET key == call("parseExpression", <<call("nextToken", <<call("nextToken", <<ps>>)>>), LOWEST>>)
             e == call("expectPeek", <<key.p, "DOUBLE_ARROW">>)
             value == call("parseExpression", <<call("nextToken", <<e.p>>), LOWEST>>)
         IN  IF ~e.ok THEN [n |-> pairs, p |-> e.p, failed |-> TRUE]
             ELSE call("arrayPairs", <<value.p, Append(pairs, [Key |-> key.n, Value |-> value.n])>>)
    ELSE [n |-> pairs, p |-> ps, failed |-> FALSE]

parseArrayLiteral(ps) ==
    IF peekTokenIs(ps, "RBRACKET")
    THEN R([kind |-> "ArrayLiteral", Elements |-> <<>>], call("nextToken", <<ps>>))
    ELSE LET firstElement == call("parseExpression", <<call("nextToken", <<ps>>), LOWEST>>)
         IN  IF peekTokenIs(firstElement.p, "DOUBLE_ARROW")
             THEN LET value == call("parseExpression", <<call("nextToken", <<call("nextToken", <<firstElement.p>>)>>), LOWEST>>)
                      rest == call("arrayPairs", <<value.p, <<[Key |-> firstElement.n, Value |-> value.n]>>>>)
                      e == call("expectPeek", <<rest.p, "RBRACKET">>)
                  IN  IF rest.failed THEN R(Nil, rest.p)
                      ELSE IF ~e.ok THEN R(Nil, e.p)
                      ELSE R([kind |-> "AssociativeArrayLiteral", Pairs |-> rest.n], e.p)
             ELSE LET rest == call("commaExpressions", <<firstElement.p, <<firstElement.n>>>>)
                      e == call("expectPeek", <<rest.p, "RBRACKET">>)
                  IN  IF ~e.ok THEN R(Nil, e.p)
                      ELSE R([kind |-> "ArrayLiteral", Elements |-> rest.n], e.p)

parseIndexExpression(ps, left) ==
    LET r == call("parseExpression", <<call("nextToken", <<ps>>), LOWEST>>)
        e == call("expectPeek", <<r.p, "RBRACKET">>)
    IN  IF ~e.ok THEN R(Nil, e.p)
        ELSE R([kind |-> "IndexExpression", Left |-> left, Index |-> r.n], e.p)

parseNewExpression(ps) ==
    LET e == call("expectPeek", <<ps, "IDENT">>)
    IN  IF ~e.ok THEN R(Nil, e.p)
        ELSE IF peekTokenIs(e.p, "LPAREN")
        THEN LET args == call("parseExpressionList", <<call("nextToken", <<e.p>>), "RPAREN">>)
             IN  R([kind |-> "NewExpression", ClassName |-> IdentifierNode(e.p.curToken),
                    Arguments |-> args.n], args.p)
        ELSE R([kind |-> "NewExpression", ClassName |-> IdentifierNode(e.p.curToken),
                Arguments |-> <<>>], e.p)

\* the mutation that parses the member with the lowest precedence, so that the call
\* becomes part of the member
parseObjectAccessExpressionLoose(ps, left) ==
    LET r == call("parseExpression", <<call("nextToken", <<ps>>), LOWEST>>)
    IN  R([kind |-> "ObjectAccessExpression", Object |-> left, Property |-> r.n], r.p)

parseObjectAccessExpression(ps, left) ==
    LET r == call("parseExpression", <<call("nextToken", <<ps>>), CALL>>)
    IN  R([kind |-> "ObjectAccessExpression", Object |-> left, Property |-> r.n], r.p)

parseStaticAccessExpression(ps, left) ==
    LET r == call("parseExpression", <<call("nextToken", <<ps>>), CALL>>)
    IN  R([kind |-> "StaticAccessExpression", Class |-> left, Property |-> r.n], r.p)

parseTernaryExpression(ps, condition) ==
    LET t == call("parseExpression", <<call("nextToken", <<ps>>), LOWEST>>)
        e == call("expectPeek", <<t.p, "COLON">>)
        f == call("parseExpression", <<call("nextToken", <<e.p>>), LOWEST>>)
    IN  IF ~e.ok THEN R(Nil, e.p)
        ELSE R([kind |-> "TernaryExpression", Condition |-> condition,
                TrueValue |-> t.n, FalseValue |-> f.n], f.p)

parseYieldExpression(ps) ==
    IF ~peekTokenIs(ps, "SEMICOLON") /\ ~peekTokenIs(ps, "RBRACE") /\ ~peekTokenIs(ps, "EOF")
    THEN LET value == call("parseExpression", <<call("nextToken", <<ps>>), LOWEST>>)
         IN  IF peekTokenIs(value.p, "DOUBLE_ARROW")
             THEN LET v == call("parseExpression", <<call("nextToken", <<call("nextToken", <<value.p>>)>>), LOWEST>>)
                  IN  R([kind |-> "YieldExpression", Key |-> value.n, Value |-> v.n], v.p)
             ELSE R([kind |-> "YieldExpression", Key |-> Nil, Value |-> value.n], value.p)
    ELSE R([kind |-> "YieldExpression", Key |-> Nil, Value |-> Nil], ps)

-----------------------------------------------------------------------------
(* parser.go: statements *)

parameterLoop(ps, identifiers) ==
    IF peekTokenIs(ps, "COMMA")
    THEN LET p2 == call("nextToken", <<call("nextToken", <<ps>>)>>)
         IN  call("parameterLoop", <<p2, IF p2.curToken.Type = "VARIABLE"
                               THEN Append(identifiers, VariableNode(p2.curToken))
                               ELSE identifiers>>)
    ELSE R(identifiers, ps)

parseFunctionParameters(ps) ==
    IF peekTokenIs(ps, "RPAREN") THEN R(<<>>, call("nextToken", <<ps>>))
    ELSE LET p1 == call("nextToken", <<ps>>)
             rest == call("parameterLoop", <<p1, IF p1.curToken.Type = "VARIABLE"
                                       THEN <<VariableNode(p1.curToken)>> ELSE <<>>>>)
             e == call("expectPeek", <<rest.p, "RPAREN">>)
         IN  IF ~e.ok THEN R(<<>>, e.p) ELSE R(rest.n, e.p)

\* for !p.curTokenIs(RBRACE) && !p.curTokenIs(EOF) { stmt := p.parseStatement(); ... }
blockLoop(ps, statements) ==
    IF ~curTokenIs(ps, "RBRACE") /\ ~curTokenIs(ps, "EOF")
    THEN LET r == call("parseStatement", <<ps>>)
         IN  call("blockLoop", <<call("nextToken", <<r.p>>), IF ~IsNilInterface(r.n) THEN Append(statements, r.n)
                                       ELSE statements>>)
    ELSE R(statements, ps)

parseBlockStatement(ps) ==
    LET r == call("blockLoop", <<call("nextToken", <<ps>>), <<>>>>)
    IN  R([kind |-> "BlockStatement", Statements |-> r.n], r.p)

\* if p.peekTokenIs(SEMICOLON) { p.nextToken() }
optionalSemicolon(ps) == IF peekTokenIs(ps, "SEMICOLON") THEN call("nextToken", <<ps>>) ELSE ps

parseFunctionDeclaration(ps) ==
    LET T == "*FunctionDeclaration"
        e1 == call("expectPeek", <<ps, "IDENT">>)
        e2 == call("expectPeek", <<e1.p, "LPAREN">>)
        params == call("parseFunctionParameters", <<e2.p>>)
        e3 == call("expectPeek", <<params.p, "LBRACE">>)
        body == call("parseBlockStatement", <<e3.p>>)
    IN  IF ~e1.ok THEN R(NilOf(T), e1.p)
        ELSE IF ~e2.ok THEN R(NilOf(T), e2.p)
        ELSE IF ~e3.ok THEN R(NilOf(T), e3.p)
        ELSE R([kind |-> "FunctionDeclaration", Name |-> IdentifierNode(e1.p.curToken),
                Parameters |-> params.n, Body |-> body.n], body.p)

\* the "use (...)" loop of parseAnonymousFunction
useClauseLoop(ps, useClause) ==
    IF ~curTokenIs(ps, "RPAREN") /\ ~curTokenIs(ps, "EOF")
    THEN LET vars2 == IF ps.curToken.Type = "VARIABLE"
                      THEN Append(useClause, VariableNode(ps.curToken)) ELSE useClause
             p1 == IF peekTokenIs(ps, "COMMA") THEN call("nextToken", <<ps>>) ELSE ps
         IN  call("useClauseLoop", <<call("nextToken", <<p1>>), vars2>>)
    ELSE R(useClause, ps)

parseAnonymousFunction(ps) ==
    LET e1 == call("expectPeek", <<ps, "LPAREN">>)
        params == call("parseFunctionParameters", <<e1.p>>)
        hasUse == peekTokenIs(params.p, "USE")
        e2 == call("expectPeek", <<call("nextToken", <<params.p>>), "LPAREN">>)
        use == IF hasUse THEN call("useClauseLoop", <<call("nextToken", <<e2.p>>), <<>>>>) ELSE R(<<>>, params.p)
        e3 == call("expectPeek", <<use.p, "LBRACE">>)
        body == call("parseBlockStatement", <<e3.p>>)
    IN  IF ~e1.ok THEN R(Nil, e1.p)
        ELSE IF hasUse /\ ~e2.ok THEN R(Nil, e2.p)
        ELSE IF ~e3.ok THEN R(Nil, e3.p)
        ELSE R([kind |-> "AnonymousFunction", Parameters |-> params.n,
                UseClause |-> use.n, Body |-> body.n], body.p)

parseReturnStatement(ps) ==
    LET p1 == call("nextToken", <<ps>>)
        value == IF ~curTokenIs(p1, "SEMICOLON") THEN call("parseExpression", <<p1, LOWEST>>)
                 ELSE R(Nil, p1)
    IN  R([kind |-> "ReturnStatement", ReturnValue |-> value.n], call("optionalSemicolon", <<value.p>>))

parseIfStatement(ps) ==
    LET T == "*IfStatement"
        e1 == call("expectPeek", <<ps, "LPAREN">>)
        cond == call("parseExpression", <<call("nextToken", <<e1.p>>), LOWEST>>)
        e2 == call("expectPeek", <<cond.p, "RPAREN">>)
        e3 == call("expectPeek", <<e2.p, "LBRACE">>)
        cons == call("parseBlockStatement", <<e3.p>>)
        hasElse == peekTokenIs(cons.p, "ELSE")
        e4 == call("expectPeek", <<call("nextToken", <<cons.p>>), "LBRACE">>)
        alt == call("parseBlockStatement", <<e4.p>>)
    IN  IF ~e1.ok THEN R(NilOf(T), e1.p)
        ELSE IF ~e2.ok THEN R(NilOf(T), e2.p)
        ELSE IF ~e3.ok THEN R(NilOf(T), e3.p)
        ELSE IF ~hasElse
        THEN R([kind |-> "IfStatement", Condition |-> cond.n, Consequence |-> cons.n,
                Alternative |-> NilOf("*BlockStatement")], cons.p)
        ELSE IF ~e4.ok THEN R(NilOf(T), e4.p)
        ELSE R([kind |-> "IfStatement", Condition |-> cond.n, Consequence |-> cons.n,
                Alternative |-> alt.n], alt.p)

parseEchoStatement(ps) ==
    LET first == call("parseExpression", <<call("nextToken", <<ps>>), LOWEST>>)
        rest == call("commaExpressions", <<first.p, <<first.n>>>>)
    IN  R([kind |-> "EchoStatement", Values |-> rest.n], call("optionalSemicolon", <<rest.p>>))

parseAssignmentExpressionFromVariable(ps) ==
    LET variable == VariableNode(ps.curToken)
        e == call("expectPeek", <<ps, "ASSIGN">>)
        value == call("parseExpression", <<call("nextToken", <<e.p>>), LOWEST>>)
    IN  IF ~e.ok THEN R(Nil, e.p)
        ELSE R([kind |-> "AssignmentExpression", Name |-> variable, Value |-> value.n],
               value.p)

parseExpressionStatement(ps) ==
    LET r == IF ps.curToken.Type = "VARIABLE" /\ ps.peekToken.Type = "ASSIGN"
             THEN call("parseAssignmentExpressionFromVariable", <<ps>>)
             ELSE call("parseExpression", <<ps, LOWEST>>)
    IN  R([kind |-> "ExpressionStatement", Expression |-> r.n], call("optionalSemicolon", <<r.p>>))

parseForStatement(ps) ==
    LET T == "*ForStatement"
        e1 == call("expectPeek", <<ps, "LPAREN">>)
        p1 == call("nextToken", <<e1.p>>)
        init == IF p1.curToken.Type = "VARIABLE" /\ p1.peekToken.Type = "ASSIGN"
                THEN call("parseAssignmentExpressionFromVariable", <<p1>>)
                ELSE call("parseExpression", <<p1, LOWEST>>)
        e2 == call("expectPeek", <<init.p, "SEMICOLON">>)
        cond == call("parseExpression", <<call("nextToken", <<e2.p>>), LOWEST>>)
        e3 == call("expectPeek", <<cond.p, "SEMICOLON">>)
        p2 == call("nextToken", <<e3.p>>)
        update ==
            IF p2.curToken.Type = "VARIABLE" /\ p2.peekToken.Type = "ASSIGN"
            THEN call("parseAssignmentExpressionFromVariable", <<p2>>)
            ELSE IF p2.curToken.Type = "VARIABLE" /\ p2.peekToken.Type = "INCREMENT"
            THEN LET p3 == call("nextToken", <<p2>>)
                 IN  R([kind |-> "PostfixExpression", Left |-> VariableNode(p2.curToken),
                        Operator |-> p3.curToken.Literal], p3)
            ELSE call("parseExpression", <<p2, LOWEST>>)
        e4 == call("expectPeek", <<update.p, "RPAREN">>)
        e5 == call("expectPeek", <<e4.p, "LBRACE">>)
        body == call("parseBlockStatement", <<e5.p>>)
    IN  IF ~e1.ok THEN R(NilOf(T), e1.p)
        ELSE IF ~e2.ok THEN R(NilOf(T), e2.p)
        ELSE IF ~e3.ok THEN R(NilOf(T), e3.p)
        ELSE IF ~e4.ok THEN R(NilOf(T), e4.p)
        ELSE IF ~e5.ok THEN R(NilOf(T), e5.p)
        ELSE R([kind |-> "ForStatement", Init |-> init.n, Condition |-> cond.n,
                Update |-> update.n, Body |-> body.n], body.p)

parseWhileStatement(ps) ==
    LET T == "*WhileStatement"
        e1 == call("expectPeek", <<ps, "LPAREN">>)
        cond == call("parseExpression", <<call("nextToken", <<e1.p>>), LOWEST>>)
        e2 == call("expectPeek", <<cond.p, "RPAREN">>)
        e3 == call("expectPeek", <<e2.p, "LBRACE">>)
        body == call("parseBlockStatement", <<e3.p>>)
    IN  IF ~e1.ok THEN R(NilOf(T), e1.p)
        ELSE IF ~e2.ok THEN R(NilOf(T), e2.p)
        ELSE IF ~e3.ok THEN R(NilOf(T), e3.p)
        ELSE R([kind |-> "WhileStatement", Condition |-> cond.n, Body |-> body.n], body.p)

\* the mutation that takes the key and the value without looking at their tokens
parseForeachStatementUnchecked(ps) ==
    LET T == "*ForeachStatement"
        e1 == call("expectPeek", <<ps, "LPAREN">>)
        array == call("parseExpression", <<call("nextToken", <<e1.p>>), LOWEST>>)
        e2 == call("expectPeek", <<array.p, "AS">>)
        p1 == call("nextToken", <<e2.p>>)
        hasKey == peekTokenIs(p1, "DOUBLE_ARROW")
        key == IF hasKey THEN VariableNode(p1.curToken) ELSE NilOf("*Variable")
        p2 == IF hasKey THEN call("nextToken", <<call("nextToken", <<p1>>)>>) ELSE p1
        e3 == call("expectPeek", <<p2, "RPAREN">>)
        e4 == call("expectPeek", <<e3.p, "LBRACE">>)
        body == call("parseBlockStatement", <<e4.p>>)
    IN  IF ~e1.ok THEN R(NilOf(T), e1.p)
        ELSE IF ~e2.ok THEN R(NilOf(T), e2.p)
        ELSE IF ~e3.ok THEN R(NilOf(T), e3.p)
        ELSE IF ~e4.ok THEN R(NilOf(T), e4.p)
        ELSE R([kind |-> "ForeachStatement", Array |-> array.n, Key |-> key,
                Value |-> VariableNode(p2.curToken), Body |-> body.n], body.p)

parseForeachStatement(ps) ==
    LET T == "*ForeachStatement"
        e1 == call("expectPeek", <<ps, "LPAREN">>)
        array == call("parseExpression", <<call("nextToken", <<e1.p>>), LOWEST>>)
        e2 == call("expectPeek", <<array.p, "AS">>)
        p1 == call("nextToken", <<e2.p>>)
        hasKey == peekTokenIs(p1, "DOUBLE_ARROW")
        key == IF hasKey THEN VariableNode(p1.curToken) ELSE NilOf("*Variable")
        p2 == IF hasKey THEN call("nextToken", <<call("nextToken", <<p1>>)>>) ELSE p1
        e3 == call("expectPeek", <<p2, "RPAREN">>)
        e4 == call("expectPeek", <<e3.p, "LBRACE">>)
        body == call("parseBlockStatement", <<e4.p>>)
    IN  IF ~e1.ok THEN R(NilOf(T), e1.p)
        ELSE IF ~e2.ok THEN R(NilOf(T), e2.p)
        ELSE IF hasKey /\ p1.curToken.Type # "VARIABLE"
        THEN R(NilOf(T), addError(p1, "foreach key must be a variable"))
        ELSE IF p2.curToken.Type # "VARIABLE"
        THEN R(NilOf(T), addError(p2, "foreach value must be a variable"))
        ELSE IF ~e3.ok THEN R(NilOf(T), e3.p)
        ELSE IF ~e4.ok THEN R(NilOf(T), e4.p)
        ELSE R([kind |-> "ForeachStatement", Array |-> array.n, Key |-> key,
                Value |-> VariableNode(p2.curToken), Body |-> body.n], body.p)

\* parseBreakStatement and parseContinueStatement, which differ in the node only
parseBreakOrContinue(ps, kind) ==
    LET level == IF peekTokenIs(ps, "INT") THEN call("parseExpression", <<call("nextToken", <<ps>>), LOWEST>>)
                 ELSE R(Nil, ps)
    IN  R([kind |-> kind, Level |-> level.n], call("optionalSemicolon", <<level.p>>))

parseBreakStatement(ps) == call("parseBreakOrContinue", <<ps, "BreakStatement">>)

parseContinueStatement(ps) == call("parseBreakOrContinue", <<ps, "ContinueStatement">>)

parseNamespaceDeclaration(ps) ==
    LET e == call("expectPeek", <<ps, "IDENT">>)
    IN  IF ~e.ok THEN R(NilOf("*NamespaceDeclaration"), e.p)
        ELSE R([kind |-> "NamespaceDeclaration", Name |-> IdentifierNode(e.p.curToken)],
               call("optionalSemicolon", <<e.p>>))

parseUseStatement(ps) ==
    LET T == "*UseStatement"
        e1 == call("expectPeek", <<ps, "IDENT">>)
        hasAlias == peekTokenIs(e1.p, "AS")
        e2 == call("expectPeek", <<call("nextToken", <<e1.p>>), "IDENT">>)
    IN  IF ~e1.ok THEN R(NilOf(T), e1.p)
        ELSE IF ~hasAlias
        THEN R([kind |-> "UseStatement", Namespace |-> IdentifierNode(e1.p.curToken),
                Alias |-> NilOf("*Identifier")], call("optionalSemicolon", <<e1.p>>))
        ELSE IF ~e2.ok THEN R(NilOf(T), e2.p)
        ELSE R([kind |-> "UseStatement", Namespace |-> IdentifierNode(e1.p.curToken),
                Alias |-> IdentifierNode(e2.p.curToken)], call("optionalSemicolon", <<e2.p>>))

parseThrowStatement(ps) ==
    LET r == call("parseExpression", <<call("nextToken", <<ps>>), LOWEST>>)
    IN  R([kind |-> "ThrowStatement", Expression |-> r.n], call("optionalSemicolon", <<r.p>>))

parseCatchClause(ps) ==
    LET T == "*CatchClause"
        e1 == call("expectPeek", <<ps, "LPAREN">>)
        p1 == call("nextToken", <<e1.p>>)
        hasType == p1.curToken.Type = "IDENT"
        p2 == IF hasType THEN call("nextToken", <<p1>>) ELSE p1
        e2 == call("expectPeek", <<p2, "RPAREN">>)
        e3 == call("expectPeek", <<e2.p, "LBRACE">>)
        body == call("parseBlockStatement", <<e3.p>>)
    IN  IF ~e1.ok THEN R(NilOf(T), e1.p)
        ELSE IF p2.curToken.Type # "VARIABLE"
        THEN R(NilOf(T), addError(p2, "expected variable in catch clause"))
        ELSE IF ~e2.ok THEN R(NilOf(T), e2.p)
        ELSE IF ~e3.ok THEN R(NilOf(T), e3.p)
        ELSE R([kind |-> "CatchClause",
                ExceptionType |-> IF hasType THEN IdentifierNode(p1.curToken)
                                  ELSE NilOf("*Identifier"),
                Variable |-> VariableNode(p2.curToken), Body |-> body.n], body.p)

\* for p.peekTokenIs(CATCH) { p.nextToken(); catch := p.parseCatchClause(); ... }
catchLoop(ps, catches) ==
    IF peekTokenIs(ps, "CATCH")
    THEN LET c == call("parseCatchClause", <<call("nextToken", <<ps>>)>>)
         IN  call("catchLoop", <<c.p, IF ~IsNilPointer(c.n) THEN Append(catches, c.n) ELSE catches>>)
    ELSE R(catches, ps)

parseTryStatement(ps) ==
    LET e1 == call("expectPeek", <<ps, "LBRACE">>)
        body == call("parseBlockStatement", <<e1.p>>)
        catches == call("catchLoop", <<body.p, <<>>>>)
        hasFinally == peekTokenIs(catches.p, "FINALLY")
        e2 == call("expectPeek", <<call("nextToken", <<catches.p>>), "LBRACE">>)
        finally == IF ~hasFinally THEN R(NilOf("*BlockStatement"), catches.p)
                   ELSE IF e2.ok THEN call("parseBlockStatement", <<e2.p>>)
                   ELSE R(NilOf("*BlockStatement"), e2.p)
    IN  IF ~e1.ok THEN R(NilOf("*TryStatement"), e1.p)
        ELSE R([kind |-> "TryStatement", Body |-> body.n, Catches |-> catches.n,
                Finally |-> finally.n], finally.p)

-----------------------------------------------------------------------------
(* parser.go: classes, interfaces and traits *)

IsVisibility(ps) ==
    curTokenIs(ps, "PUBLIC") \/ curTokenIs(ps, "PRIVATE") \/ curTokenIs(ps, "PROTECTED")

PublicVisibility == S(<<"p", "u", "b", "l", "i", "c">>)

parsePropertyDeclaration(ps, visibility, static) ==
    IF ~curTokenIs(ps, "VARIABLE") THEN R(NilOf("*PropertyDeclaration"), ps)
    ELSE LET value == IF peekTokenIs(ps, "ASSIGN")
                      THEN call("parseExpression", <<call("nextToken", <<call("nextToken", <<ps>>)>>), LOWEST>>)
                      ELSE R(Nil, ps)
         IN  R([kind |-> "PropertyDeclaration", Visibility |-> visibility,
                Static |-> static, Name |-> VariableNode(ps.curToken), Value |-> value.n],
               call("optionalSemicolon", <<value.p>>))

\* the mutation that makes every method public
parseMethodDeclarationPublic(ps, visibility, static) ==
    LET T == "*MethodDeclaration"
        e1 == call("expectPeek", <<ps, "IDENT">>)
        e2 == call("expectPeek", <<e1.p, "LPAREN">>)
        params == call("parseFunctionParameters", <<e2.p>>)
        e3 == call("expectPeek", <<params.p, "LBRACE">>)
        body == call("parseBlockStatement", <<e3.p>>)
    IN  IF ~curTokenIs(ps, "FUNCTION") THEN R(NilOf(T), ps)
        ELSE IF ~e1.ok THEN R(NilOf(T), e1.p)
        ELSE IF ~e2.ok THEN R(NilOf(T), e2.p)
        ELSE IF ~e3.ok THEN R(NilOf(T), e3.p)
        ELSE R([kind |-> "MethodDeclaration", Visibility |-> PublicVisibility,
                Static |-> static, Name |-> IdentifierNode(e1.p.curToken),
                Parameters |-> params.n, Body |-> body.n], body.p)

parseMethodDeclaration(ps, visibility, static) ==
    LET T == "*MethodDeclaration"
        e1 == call("expectPeek", <<ps, "IDENT">>)
        e2 == call("expectPeek", <<e1.p, "LPAREN">>)
        params == call("parseFunctionParameters", <<e2.p>>)
        e3 == call("expectPeek", <<params.p, "LBRACE">>)
        body == call("parseBlockStatement", <<e3.p>>)
    IN  IF ~curTokenIs(ps, "FUNCTION") THEN R(NilOf(T), ps)
        ELSE IF ~e1.ok THEN R(NilOf(T), e1.p)
        ELSE IF ~e2.ok THEN R(NilOf(T), e2.p)
        ELSE IF ~e3.ok THEN R(NilOf(T), e3.p)
        ELSE R([kind |-> "MethodDeclaration", Visibility |-> visibility, Static |-> static,
                Name |-> IdentifierNode(e1.p.curToken), Parameters |-> params.n,
                Body |-> body.n], body.p)

parseConstantDeclaration(ps) ==
    LET T == "*ConstantDeclaration"
        e0 == IF IsVisibility(ps) THEN call("expectPeek", <<ps, "CONST">>) ELSE [ok |-> TRUE, p |-> ps]
        visibility == IF IsVisibility(ps) THEN ps.curToken.Literal ELSE PublicVisibility
        e1 == call("expectPeek", <<e0.p, "IDENT">>)
        e2 == call("expectPeek", <<e1.p, "ASSIGN">>)
        value == call("parseExpression", <<call("nextToken", <<e2.p>>), LOWEST>>)
    IN  IF ~e0.ok THEN R(NilOf(T), e0.p)
        ELSE IF ~e1.ok THEN R(NilOf(T), e1.p)
        ELSE IF ~e2.ok THEN R(NilOf(T), e2.p)
        ELSE R([kind |-> "ConstantDeclaration", Visibility |-> visibility,
                Name |-> IdentifierNode(e1.p.curToken), Value |-> value.n],
               call("optionalSemicolon", <<value.p>>))

traitUseLoop(ps, traits) ==
    IF ~curTokenIs(ps, "SEMICOLON") /\ ~curTokenIs(ps, "EOF")
    THEN LET traits2 == IF curTokenIs(ps, "IDENT")
                        THEN Append(traits, IdentifierNode(ps.curToken)) ELSE traits
             p1 == IF peekTokenIs(ps, "COMMA") THEN call("nextToken", <<ps>>) ELSE ps
         IN  call("traitUseLoop", <<call("nextToken", <<p1>>), traits2>>)
    ELSE R(traits, ps)

parseTraitUse(ps) ==
    LET r == call("traitUseLoop", <<call("nextToken", <<ps>>), <<>>>>)
    IN  R([kind |-> "TraitUse", Traits |-> r.n], r.p)

\* the loop over the names after "implements"
implementsLoop(ps, interfaces) ==
    IF ~curTokenIs(ps, "LBRACE") /\ ~curTokenIs(ps, "EOF")
    THEN LET interfaces2 == IF curTokenIs(ps, "IDENT")
                            THEN Append(interfaces, IdentifierNode(ps.curToken))
                            ELSE interfaces
             p1 == IF peekTokenIs(ps, "COMMA") THEN call("nextToken", <<ps>>) ELSE ps
         IN  IF peekTokenIs(p1, "LBRACE") THEN R(interfaces2, p1)
             ELSE call("implementsLoop", <<call("nextToken", <<p1>>), interfaces2>>)
    ELSE R(interfaces, ps)

\* the loop over the members of a class body; stmt is the ClassDeclaration so far
classBodyLoop(ps, stmt) ==
    IF ~curTokenIs(ps, "RBRACE") /\ ~curTokenIs(ps, "EOF")
    THEN IF curTokenIs(ps, "USE")
         THEN LET t == call("parseTraitUse", <<ps>>)
              IN  call("classBodyLoop", <<call("nextToken", <<t.p>>),
                      IF ~IsNilPointer(t.n)
                      THEN [stmt EXCEPT !.TraitUses = Append(@, t.n)] ELSE stmt>>)
         ELSE LET visibility == IF IsVisibility(ps) THEN ps.curToken.Literal
                                ELSE PublicVisibility
                  p1 == IF IsVisibility(ps) THEN call("nextToken", <<ps>>) ELSE ps
                  static == curTokenIs(p1, "STATIC")
                  p2 == IF static THEN call("nextToken", <<p1>>) ELSE p1
              IN  IF curTokenIs(p2, "CONST")
                  THEN LET c == call("parseConstantDeclaration", <<p2>>)
                       IN  call("classBodyLoop", <<call("nextToken", <<c.p>>),
                               IF ~IsNilPointer(c.n)
                               THEN [stmt EXCEPT !.Constants =
                                        Append(@, [c.n EXCEPT !.Visibility = visibility])]
                               ELSE stmt>>)
                  ELSE IF curTokenIs(p2, "FUNCTION")
                  THEN LET m == call("parseMethodDeclaration", <<p2, visibility, static>>)
                       IN  call("classBodyLoop", <<call("nextToken", <<m.p>>),
                               IF ~IsNilPointer(m.n)
                               THEN [stmt EXCEPT !.Methods = Append(@, m.n)] ELSE stmt>>)
                  ELSE IF curTokenIs(p2, "VARIABLE")
                  THEN LET v == call("parsePropertyDeclaration", <<p2, visibility, static>>)
                       IN  call("classBodyLoop", <<call("nextToken", <<v.p>>),
                               IF ~IsNilPointer(v.n)
                               THEN [stmt EXCEPT !.Properties = Append(@, v.n)] ELSE stmt>>)
                  ELSE call("classBodyLoop", <<call("nextToken", <<p2>>), stmt>>)
    ELSE R(stmt, ps)

parseClassDeclaration(ps) ==
    LET T == "*ClassDeclaration"
        e1 == call("expectPeek", <<ps, "IDENT">>)
        hasExtends == peekTokenIs(e1.p, "EXTENDS")
        e2 == IF hasExtends THEN call("expectPeek", <<call("nextToken", <<e1.p>>), "IDENT">>)
              ELSE [ok |-> TRUE, p |-> e1.p]
        super == IF hasExtends THEN IdentifierNode(e2.p.curToken) ELSE NilOf("*Identifier")
        interfaces == IF peekTokenIs(e2.p, "IMPLEMENTS")
                      THEN call("implementsLoop", <<call("nextToken", <<call("nextToken", <<e2.p>>)>>), <<>>>>)
                      ELSE R(<<>>, e2.p)
        e3 == call("expectPeek", <<interfaces.p, "LBRACE">>)
        body == call("classBodyLoop", <<call("nextToken", <<e3.p>>),
                    [kind |-> "ClassDeclaration", Name |-> IdentifierNode(e1.p.curToken),
                     SuperClass |-> super, Interfaces |-> interfaces.n, TraitUses |-> <<>>,
                     Properties |-> <<>>, Methods |-> <<>>, Constants |-> <<>>]>>)
    IN  IF ~e1.ok THEN R(NilOf(T), e1.p)
        ELSE IF ~e2.ok THEN R(NilOf(T), e2.p)
        ELSE IF ~e3.ok THEN R(NilOf(T), e3.p)
        ELSE body

parseInterfaceMethod(ps) ==
    LET T == "*InterfaceMethod"
        visibility == IF IsVisibility(ps) THEN ps.curToken.Literal ELSE PublicVisibility
        p1 == IF IsVisibility(ps) THEN call("nextToken", <<ps>>) ELSE ps
        p2 == call("nextToken", <<p1>>)
        e == call("expectPeek", <<p2, "LPAREN">>)
        params == call("parseFunctionParameters", <<e.p>>)
    IN  IF ~curTokenIs(p1, "FUNCTION") THEN R(NilOf(T), p1)
        ELSE IF ~curTokenIs(p2, "IDENT") THEN R(NilOf(T), p2)
        ELSE IF ~e.ok THEN R(NilOf(T), e.p)
        ELSE R([kind |-> "InterfaceMethod", Visibility |-> visibility,
                Name |-> IdentifierNode(p2.curToken), Parameters |-> params.n],
               call("optionalSemicolon", <<params.p>>))

interfaceBodyLoop(ps, methods) ==
    IF ~curTokenIs(ps, "RBRACE") /\ ~curTokenIs(ps, "EOF")
    THEN LET m == call("parseInterfaceMethod", <<ps>>)
         IN  call("interfaceBodyLoop", <<call("nextToken", <<m.p>>),
                 IF ~IsNilPointer(m.n) THEN Append(methods, m.n) ELSE methods>>)
    ELSE R(methods, ps)

parseInterfaceDeclaration(ps) ==
    LET T == "*InterfaceDeclaration"
        e1 == call("expectPeek", <<ps, "IDENT">>)
        e2 == call("expectPeek", <<e1.p, "LBRACE">>)
        body == call("interfaceBodyLoop", <<call("nextToken", <<e2.p>>), <<>>>>)
    IN  IF ~e1.ok THEN R(NilOf(T), e1.p)
        ELSE IF ~e2.ok THEN R(NilOf(T), e2.p)
        ELSE R([kind |-> "InterfaceDeclaration", Name |-> IdentifierNode(e1.p.curToken),
                Methods |-> body.n], body.p)

\* the loop over the members of a trait body; stmt is the TraitDeclaration so far
traitBodyLoop(ps, stmt) ==
    IF ~curTokenIs(ps, "RBRACE") /\ ~curTokenIs(ps, "EOF")
    THEN LET visibility == IF IsVisibility(ps) THEN ps.curToken.Literal
                           ELSE PublicVisibility
             p1 == IF IsVisibility(ps) THEN call("nextToken", <<ps>>) ELSE ps
             static == curTokenIs(p1, "STATIC")
             p2 == IF static THEN call("nextToken", <<p1>>) ELSE p1
         IN  IF curTokenIs(p2, "VARIABLE")
             THEN LET v == call("parsePropertyDeclaration", <<p2, visibility, static>>)
                  IN  call("traitBodyLoop", <<call("nextToken", <<v.p>>),
                          IF ~IsNilPointer(v.n)
                          THEN [stmt EXCEPT !.Properties = Append(@, v.n)] ELSE stmt>>)
             ELSE IF curTokenIs(p2, "FUNCTION")
             THEN LET m == call("parseMethodDeclaration", <<p2, visibility, static>>)
                  IN  call("traitBodyLoop", <<call("nextToken", <<m.p>>),
                          IF ~IsNilPointer(m.n)
                          THEN [stmt EXCEPT !.Methods = Append(@, m.n)] ELSE stmt>>)
             ELSE call("traitBodyLoop", <<call("nextToken", <<p2>>), stmt>>)
    ELSE R(stmt, ps)

parseTraitDeclaration(ps) ==
    LET T == "*TraitDeclaration"
        e1 == call("expectPeek", <<ps, "IDENT">>)
        e2 == call("expectPeek", <<e1.p, "LBRACE">>)
        body == call("traitBodyLoop", <<call("nextToken", <<e2.p>>),
                    [kind |-> "TraitDeclaration", Name |-> IdentifierNode(e1.p.curToken),
                     Properties |-> <<>>, Methods |-> <<>>]>>)
    IN  IF ~e1.ok THEN R(NilOf(T), e1.p)
        ELSE IF ~e2.ok THEN R(NilOf(T), e2.p)
        ELSE body

\* the switch of parseStatement: every case returns a pointer, so the Statement it
\* yields is never the nil interface
parseStatement(ps) ==
    LET t == ps.curToken.Type
    IN  CASE t = "FUNCTION" -> call("parseFunctionDeclaration", <<ps>>)
          [] t = "CLASS" -> call("parseClassDeclaration", <<ps>>)
          [] t = "INTERFACE" -> call("parseInterfaceDeclaration", <<ps>>)
          [] t = "TRAIT" -> call("parseTraitDeclaration", <<ps>>)
          [] t = "CONST" -> call("parseConstantDeclaration", <<ps>>)
          [] t = "NAMESPACE" -> call("parseNamespaceDeclaration", <<ps>>)
          [] t = "USE" -> call("parseUseStatement", <<ps>>)
          [] t = "TRY" -> call("parseTryStatement", <<ps>>)
          [] t = "THROW" -> call("parseThrowStatement", <<ps>>)
          [] t = "RETURN" -> call("parseReturnStatement", <<ps>>)
          [] t = "IF" -> call("parseIfStatement", <<ps>>)
          [] t = "ECHO" -> call("parseEchoStatement", <<ps>>)
          [] t = "FOR" -> call("parseForStatement", <<ps>>)
          [] t = "WHILE" -> call("parseWhileStatement", <<ps>>)
          [] t = "FOREACH" -> call("parseForeachStatement", <<ps>>)
          [] t = "BREAK" -> call("parseBreakStatement", <<ps>>)
          [] t = "CONTINUE" -> call("parseContinueStatement", <<ps>>)
          [] OTHER -> call("parseExpressionStatement", <<ps>>)

call(name, a) ==
    CASE name = "readChar" -> readChar(a[1])
      [] name = "nextToken" -> nextToken(a[1])
      [] name = "expectPeek" -> expectPeek(a[1], a[2])
      [] name = "NextToken" -> NextToken(a[1])
      [] name = "parseExpression" -> parseExpression(a[1], a[2])
      [] name = "parseStatement" -> parseStatement(a[1])
      [] name = "New" -> New(a[1])
      [] name = "skipWhitespace" -> skipWhitespace(a[1])
      [] name = "readIdentifierLoop" -> readIdentifierLoop(a[1])
      [] name = "readIdentifier" -> readIdentifier(a[1])
      [] name = "readDigits" -> readDigits(a[1])
      [] name = "readNumber" -> readNumber(a[1])
      [] name = "readStringLoop" -> readStringLoop(a[1], a[2])
      [] name = "readString" -> readString(a[1], a[2])
      [] name = "skipLineComment" -> skipLineComment(a[1])
      [] name = "skipBlockComment" -> skipBlockComment(a[1])
      [] name = "skipComment" -> skipComment(a[1])
      [] name = "twoCharToken" -> twoCharToken(a[1], a[2])
      [] name = "oneCharToken" -> oneCharToken(a[1], a[2])
      [] name = "lexAssign" -> lexAssign(a[1])
      [] name = "lexPlus" -> lexPlus(a[1])
      [] name = "lexMinus" -> lexMinus(a[1])
      [] name = "lexNot" -> lexNot(a[1])
      [] name = "lexLess" -> lexLess(a[1])
      [] name = "lexGreater" -> lexGreater(a[1])
      [] name = "lexAmpersand" -> lexAmpersand(a[1])
      [] name = "lexPipe" -> lexPipe(a[1])
      [] name = "lexQuestion" -> lexQuestion(a[1])
      [] name = "lexColon" -> lexColon(a[1])
      [] name = "NewParser" -> NewParser(a[1])
      [] name = "parseIdentifier" -> parseIdentifier(a[1])
      [] name = "parseVariable" -> parseVariable(a[1])
      [] name = "parseIntegerLiteral" -> parseIntegerLiteral(a[1])
      [] name = "parseFloatLiteral" -> parseFloatLiteral(a[1])
      [] name = "parseBooleanLiteral" -> parseBooleanLiteral(a[1])
      [] name = "parseInterpolatedString" -> parseInterpolatedString(a[1])
      [] name = "parseStringLiteral" -> parseStringLiteral(a[1])
      [] name = "parsePostfixExpression" -> parsePostfixExpression(a[1], a[2])
      [] name = "infixLoop" -> infixLoop(a[1], a[2], a[3])
      [] name = "prefixFn" -> prefixFn(a[1])
      [] name = "infixFn" -> infixFn(a[1], a[2])
      [] name = "parsePrefixExpression" -> parsePrefixExpression(a[1])
      [] name = "parseInfixExpression" -> parseInfixExpression(a[1], a[2])
      [] name = "parseAssignmentExpression" -> parseAssignmentExpression(a[1], a[2])
      [] name = "parseGroupedExpression" -> parseGroupedExpression(a[1])
      [] name = "parseCallExpression" -> parseCallExpression(a[1], a[2])
      [] name = "commaExpressions" -> commaExpressions(a[1], a[2])
      [] name = "parseExpressionList" -> parseExpressionList(a[1], a[2])
      [] name = "arrayPairs" -> arrayPairs(a[1], a[2])
      [] name = "parseArrayLiteral" -> parseArrayLiteral(a[1])
      [] name = "parseIndexExpression" -> parseIndexExpression(a[1], a[2])
      [] name = "parseNewExpression" -> parseNewExpression(a[1])
      [] name = "parseObjectAccessExpression" -> parseObjectAccessExpression(a[1], a[2])
      [] name = "parseStaticAccessExpression" -> parseStaticAccessExpression(a[1], a[2])
      [] name = "parseTernaryExpression" -> parseTernaryExpression(a[1], a[2])
      [] name = "parseYieldExpression" -> parseYieldExpression(a[1])
      [] name = "parameterLoop" -> parameterLoop(a[1], a[2])
      [] name = "parseFunctionParameters" -> parseFunctionParameters(a[1])
      [] name = "blockLoop" -> blockLoop(a[1], a[2])
      [] name = "parseBlockStatement" -> parseBlockStatement(a[1])
      [] name = "optionalSemicolon" -> optionalSemicolon(a[1])
      [] name = "parseFunctionDeclaration" -> parseFunctionDeclaration(a[1])
      [] name = "useClauseLoop" -> useClauseLoop(a[1], a[2])
      [] name = "parseAnonymousFunction" -> parseAnonymousFunction(a[1])
      [] name = "parseReturnStatement" -> parseReturnStatement(a[1])
      [] name = "parseIfStatement" -> parseIfStatement(a[1])
      [] name = "parseEchoStatement" -> parseEchoStatement(a[1])
      [] name = "parseAssignmentExpressionFromVariable" -> parseAssignmentExpressionFromVariable(a[1])
      [] name = "parseExpressionStatement" -> parseExpressionStatement(a[1])
      [] name = "parseForStatement" -> parseForStatement(a[1])
      [] name = "parseWhileStatement" -> parseWhileStatement(a[1])
      [] name = "parseForeachStatement" -> parseForeachStatement(a[1])
      [] name = "parseBreakOrContinue" -> parseBreakOrContinue(a[1], a[2])
      [] name = "parseBreakStatement" -> parseBreakStatement(a[1])
      [] name = "parseContinueStatement" -> parseContinueStatement(a[1])
      [] name = "parseNamespaceDeclaration" -> parseNamespaceDeclaration(a[1])
      [] name = "parseUseStatement" -> parseUseStatement(a[1])
      [] name = "parseThrowStatement" -> parseThrowStatement(a[1])
      [] name = "parseCatchClause" -> parseCatchClause(a[1])
      [] name = "catchLoop" -> catchLoop(a[1], a[2])
      [] name = "parseTryStatement" -> parseTryStatement(a[1])
      [] name = "parsePropertyDeclaration" -> parsePropertyDeclaration(a[1], a[2], a[3])
      [] name = "parseMethodDeclaration" -> parseMethodDeclaration(a[1], a[2], a[3])
      [] name = "parseConstantDeclaration" -> parseConstantDeclaration(a[1])
      [] name = "traitUseLoop" -> traitUseLoop(a[1], a[2])
      [] name = "parseTraitUse" -> parseTraitUse(a[1])
      [] name = "implementsLoop" -> implementsLoop(a[1], a[2])
      [] name = "classBodyLoop" -> classBodyLoop(a[1], a[2])
      [] name = "parseClassDeclaration" -> parseClassDeclaration(a[1])
      [] name = "parseInterfaceMethod" -> parseInterfaceMethod(a[1])
      [] name = "interfaceBodyLoop" -> interfaceBodyLoop(a[1], a[2])
      [] name = "parseInterfaceDeclaration" -> parseInterfaceDeclaration(a[1])
      [] name = "traitBodyLoop" -> traitBodyLoop(a[1], a[2])
      [] name = "parseTraitDeclaration" -> parseTraitDeclaration(a[1])

-----------------------------------------------------------------------------
(* The lexer on its own: New(input), then NextToken called again and again *)

SeqsUpTo(A, n) == UNION {[1..k -> A] : k \in 0..n}

\* the characters of the operators
OperatorAlphabet ==
    {B(c) : c \in {"=", "<", ">", "?", "-", "+", "!", ":", "&", "|", " "}}

\* the characters of strings, variables, numbers, comments and line breaks
TextAlphabet ==
    {B(c) : c \in {"\"", "'", "\\", "$", "a", "1", ".", "/", "=", " ", "\n"}}

\* texts longer than MaxLexLen that reach the "<?php" scan
LexLongInputs ==
    {S(<<"<", "?", "p", "h", "p">>), S(<<"<", "?", "p", "h", "p", " ", "$", "a">>),
     S(<<"<", "?", "p", "h", "=">>), S(<<"<", "?", "p", "=", "=">>)}

\* texts with one comment: the text before it, the comment and the text after it
CommentTexts ==
    LET line == {S(<<"/", "/">>), S(<<"/", "/", " ", "a">>), S(<<"/", "/", "1", "=">>)}
        block == {S(<<"/", "*", "*", "/">>), S(<<"/", "*", " ", "a", " ", "*", "/">>)}
        before == {<<>>, S(<<"1", " ">>), S(<<"$", "a", " ", "=", " ">>)}
    IN  {[before |-> b, comment |-> c, after |-> a] :
            b \in before, c \in line, a \in {<<>>, S(<<"\n", "2">>)}}
        \cup {[before |-> b, comment |-> c, after |-> a] :
                b \in before, c \in block, a \in {<<>>, S(<<" ", "2">>), S(<<"\n", "2">>)}}

WithComment(c) == c.before \o c.comment \o c.after

WithoutComment(c) == c.before \o c.after

LexInputs ==
    SeqsUpTo(OperatorAlphabet, MaxLexLen) \cup SeqsUpTo(TextAlphabet, MaxLexLen)
        \cup LexLongInputs \cup {WithComment(c) : c \in CommentTexts}

NoParser == [curToken |-> NoToken, peekToken |-> NoToken, errors |-> <<>>]

\* no SemanticAnalyzer has been made: the lexer and the parser run without one
NoAnalyzer == [SymbolTable |-> Nil, Errors |-> <<>>]

InitLex ==
    /\ \E input \in LexInputs : l = call("New", <<input>>)
    /\ toks = <<>>
    /\ p = NoParser
    /\ program = <<>>
    /\ sa = NoAnalyzer
    /\ visited = 0
    /\ pc = "lex"

EofCalls == Cardinality({i \in DOMAIN toks : toks[i].tok.Type = "EOF"})

\* tok := l.NextToken()
CallNextToken ==
    /\ pc = "lex"
    /\ EofCalls < MaxEofCalls
    /\ LET r == call("NextToken", <<l>>)
       IN  IF r.panicked
           THEN /\ pc' = "panicked"
                /\ UNCHANGED <<l, toks>>
           ELSE /\ l' = r.l
                /\ toks' = Append(toks, [tok |-> r.tok, start |-> r.start])
                /\ pc' = pc
    /\ UNCHANGED <<p, program, sa, visited>>

NextLex == CallNextToken

SpecLex == InitLex /\ [][NextLex]_vars

-----------------------------------------------------------------------------
(* The parser on its own lexer: l := New(input); p := NewParser(l);          *)
(* p.ParseProgram(), one iteration of its loop per step                      *)

\* lexemes
LxVarA == S(<<"$", "a">>)
LxVarB == S(<<"$", "b">>)
LxVarC == S(<<"$", "c">>)
LxVarE == S(<<"$", "e">>)
LxVarX == S(<<"$", "x">>)
LxStringK == S(<<"\"", "k", "\"">>)
LxIdentF == S(<<"f">>)
LxIdentA == S(<<"A">>)
LxInt0 == S(<<"0">>)
LxInt1 == S(<<"1">>)
LxInt2 == S(<<"2">>)
LxInt3 == S(<<"3">>)
LxInt5 == S(<<"5">>)
LxAssign == S(<<"=">>)
LxCoalesceAssign == S(<<"?", "?", "=">>)
LxAnd == S(<<"&", "&">>)
LxOr == S(<<"|", "|">>)
LxNamespace == S(<<"n", "a", "m", "e", "s", "p", "a", "c", "e">>)
LxAs == S(<<"a", "s">>)
LxIdentU == S(<<"u">>)
LxQualifiedAB == S(<<"a", "\\", "b">>)
LxQualifiedABC == S(<<"a", "\\", "b", "\\", "c">>)
LxObjectAccess == S(<<"-", ">">>)
LxStaticAccess == S(<<":", ":">>)
LxIdentM == S(<<"m">>)
LxForeach == S(<<"f", "o", "r", "e", "a", "c", "h">>)
LxDoubleArrow == S(<<"=", ">">>)
LxVarK == S(<<"$", "k">>)
LxVarV == S(<<"$", "v">>)
LxIdentB == S(<<"b">>)
LxIdentC == S(<<"c">>)
LxIdentD == S(<<"d">>)
LxExtends == S(<<"e", "x", "t", "e", "n", "d", "s">>)
LxImplements == S(<<"i", "m", "p", "l", "e", "m", "e", "n", "t", "s">>)
LxPublic == S(<<"p", "u", "b", "l", "i", "c">>)
LxProtected == S(<<"p", "r", "o", "t", "e", "c", "t", "e", "d">>)
LxFor == S(<<"f", "o", "r">>)
LxLess == S(<<"<">>)
LxPlus == S(<<"+">>)
LxStar == S(<<"*">>)
LxSemicolon == S(<<";">>)
LxComma == S(<<",">>)
LxLParen == S(<<"(">>)
LxRParen == S(<<")">>)
LxLBrace == S(<<"{">>)
LxRBrace == S(<<"}">>)
LxLBracket == S(<<"[">>)
LxRBracket == S(<<"]">>)
LxIncrement == S(<<"+", "+">>)
LxDecrement == S(<<"-", "-">>)
LxAmpersand == S(<<"&">>)
LxQuote == S(<<"\"">>)
LxBackslash == S(<<"\\">>)
LxPhpOpen == S(<<"<", "?", "p", "h", "p">>)
LxPhpClose == S(<<"?", ">">>)
LxIf == S(<<"i", "f">>)
LxElse == S(<<"e", "l", "s", "e">>)
LxTry == S(<<"t", "r", "y">>)
LxCatch == S(<<"c", "a", "t", "c", "h">>)
LxFinally == S(<<"f", "i", "n", "a", "l", "l", "y">>)
LxClass == S(<<"c", "l", "a", "s", "s">>)
LxInterface == S(<<"i", "n", "t", "e", "r", "f", "a", "c", "e">>)
LxTrait == S(<<"t", "r", "a", "i", "t">>)
LxUse == S(<<"u", "s", "e">>)
LxFunction == S(<<"f", "u", "n", "c", "t", "i", "o", "n">>)
LxStatic == S(<<"s", "t", "a", "t", "i", "c">>)
LxPrivate == S(<<"p", "r", "i", "v", "a", "t", "e">>)

\* the source text of a sequence of lexemes: the lexemes with one space between them
RECURSIVE Join(_)
Join(lexemes) ==
    IF lexemes = <<>> THEN <<>>
    ELSE IF Len(lexemes) = 1 THEN lexemes[1]
    ELSE lexemes[1] \o <<B(" ")>> \o Join(Tail(lexemes))

\* the binary operators of the precedence table, which parseInfixExpression handles
BinaryOperators ==
    (S(<<"=", "=">>) :> "EQ") @@ (S(<<"!", "=">>) :> "NOT_EQ") @@
    (S(<<"?", "?">>) :> "QUESTION_QUESTION") @@
    (S(<<"<">>) :> "LT") @@ (S(<<">">>) :> "GT") @@ (S(<<"<", "=">>) :> "LTE") @@
    (S(<<">", "=">>) :> "GTE") @@ (S(<<"<", "=", ">">>) :> "SPACESHIP") @@
    (S(<<"+">>) :> "PLUS") @@ (S(<<"-">>) :> "MINUS") @@ (S(<<".">>) :> "CONCAT") @@
    (S(<<"*">>) :> "MULTIPLY") @@ (S(<<"/">>) :> "DIVIDE") @@ (S(<<"%">>) :> "MODULO")

\* the vocabularies of the enumerated texts: every text of up to MaxToks lexemes of one
\* vocabulary is parsed
Vocabularies ==
    { {LxVarA, LxInt5, LxAssign, LxCoalesceAssign, LxPlus, LxStar, LxSemicolon},
      {LxVarA, LxInt0, LxLBracket, LxRBracket, LxIncrement, LxDecrement, LxSemicolon},
      {LxIdentF, LxVarA, LxLParen, LxRParen, LxComma, LxAmpersand, LxSemicolon},
      {LxIf, LxElse, LxLParen, LxRParen, LxLBrace, LxRBrace, LxVarA},
      {LxTry, LxCatch, LxFinally, LxLBrace, LxRBrace, LxLParen, LxVarE},
      {LxClass, LxIdentA, LxLBrace, LxRBrace, LxUse, LxFunction, LxVarA},
      {LxInterface, LxTrait, LxIdentA, LxLBrace, LxFunction, LxLParen, LxStatic},
      {LxQuote, LxBackslash, LxVarA, LxSemicolon},
      {LxPhpOpen, LxPhpClose, LxVarA, LxSemicolon} }

\* a op1 b op2 c for every two binary operators
OperandTriples == {<<LxVarA, LxVarB, LxVarC>>, <<LxInt1, LxInt2, LxInt3>>}

TwoOperatorTexts ==
    {<<t[1], op1, t[2], op2, t[3]>> :
        t \in OperandTriples, op1 \in DOMAIN BinaryOperators, op2 \in DOMAIN BinaryOperators}

\* well-formed programs longer than MaxToks lexemes
ProgramTexts ==
    { <<LxInt5, LxAssign, LxVarX>>, <<LxInt5, LxAssign, LxVarX, LxSemicolon>>,
      <<LxPhpOpen, LxVarA, LxAssign, LxInt5, LxPlus, LxInt3, LxStar, LxInt2, LxSemicolon,
        LxPhpClose>>,
      <<LxIdentF, LxLParen, LxAmpersand, LxVarA, LxRParen, LxSemicolon>>,
      <<LxVarA, LxAssign, LxInt1, LxSemicolon, LxAmpersand, LxVarB, LxAssign, LxInt2,
        LxSemicolon>>,
      <<LxTry, LxLBrace, LxVarA, LxSemicolon, LxRBrace, LxCatch, LxLParen, LxIdentA, LxVarE,
        LxRParen, LxLBrace, LxRBrace, LxFinally, LxLBrace, LxRBrace>>,
      <<LxClass, LxIdentA, LxLBrace, LxPrivate, LxStatic, LxFunction, LxIdentF, LxLParen,
        LxVarA, LxComma, LxVarB, LxRParen, LxLBrace, LxRBrace, LxVarC, LxSemicolon,
        LxRBrace>>,
      <<LxInterface, LxIdentA, LxLBrace, LxFunction, LxIdentF, LxLParen, LxRParen,
        LxSemicolon, LxRBrace>>,
      <<LxTrait, LxIdentA, LxLBrace, LxStatic, LxVarA, LxSemicolon, LxRBrace>>,
      <<LxIf, LxLParen, LxVarA, LxRParen, LxLBrace, LxVarB, LxSemicolon, LxRBrace, LxElse,
        LxLBrace, LxRBrace>> }

\* E [ i ] ; for a variable or a name E and an integer, a string or a variable i
IndexTexts ==
    {<<e, LxLBracket, i, LxRBracket, LxSemicolon>> :
        e \in {LxVarA, LxIdentF}, i \in {LxInt0, LxStringK, LxVarB}}

\* $a ++ ; and $a -- ;
PostfixTexts == {<<LxVarA, op, LxSemicolon>> : op \in {LxIncrement, LxDecrement}}

\* a && b and a || b, with and without the terminator
LogicalTexts ==
    {<<t[1], op, t[2]>> : t \in OperandTriples, op \in {LxAnd, LxOr}}
        \cup {<<t[1], op, t[2], LxSemicolon>> : t \in OperandTriples, op \in {LxAnd, LxOr}}

\* namespace N ; and use N ; and use N as u ; for a name N of several segments
QualifiedNames == {LxQualifiedAB, LxQualifiedABC}

NamespaceTexts == {<<LxNamespace, n, LxSemicolon>> : n \in QualifiedNames}

UseTexts == {<<LxUse, n, LxSemicolon>> : n \in QualifiedNames}

UseAsTexts == {<<LxUse, n, LxAs, LxIdentU, LxSemicolon>> : n \in QualifiedNames}

\* the same with names of one segment
PlainNameTexts ==
    { <<LxNamespace, LxIdentA, LxSemicolon>>, <<LxUse, LxIdentA, LxSemicolon>>,
      <<LxUse, LxIdentA, LxAs, LxIdentU, LxSemicolon>> }

\* X -> m ( args ) ; and A :: m ( args ) ; for argument lists of 0, 1 and 2 operands
ArgumentLists == {<<>>, <<LxVarA>>, <<LxInt1>>, <<LxVarA, LxInt1>>, <<LxInt1, LxVarB>>}

CommaList(args) ==
    IF Len(args) = 0 THEN <<>>
    ELSE IF Len(args) = 1 THEN <<args[1]>>
    ELSE <<args[1], LxComma, args[2]>>

MemberCallText(base, access, args) ==
    <<base, access, LxIdentM, LxLParen>> \o CommaList(args) \o <<LxRParen, LxSemicolon>>

MemberCallTexts ==
    {MemberCallText(LxVarX, LxObjectAccess, args) : args \in ArgumentLists}
        \cup {MemberCallText(LxIdentA, LxStaticAccess, args) : args \in ArgumentLists}

\* foreach ( E as target ) body, for the lexemes target between "as" and ")"
ForeachBodies == {<<LxLBrace, LxRBrace>>, <<LxLBrace, LxVarV, LxSemicolon, LxRBrace>>}

ForeachText(array, target, body) ==
    <<LxForeach, LxLParen, array, LxAs>> \o target \o <<LxRParen>> \o body

ForeachArrays == {LxVarA, LxIdentF}

\* the targets $v and $k => $v
ValueTarget == <<LxVarV>>

KeyValueTarget == <<LxVarK, LxDoubleArrow, LxVarV>>

\* targets whose key or value is not a plain variable
BadForeachTargets ==
    { <<LxInt5>>, <<LxIdentF>>, <<LxStringK>>, <<LxAmpersand, LxVarV>>,
      <<LxVarV, LxLBracket, LxInt0, LxRBracket>>, <<LxVarV, LxObjectAccess, LxIdentM>>,
      <<LxInt5, LxDoubleArrow, LxVarV>>, <<LxIdentF, LxDoubleArrow, LxVarV>>,
      <<LxStringK, LxDoubleArrow, LxVarV>>, <<LxVarK, LxDoubleArrow, LxInt5>>,
      <<LxVarK, LxDoubleArrow, LxIdentF>>, <<LxVarK, LxDoubleArrow, LxAmpersand, LxVarV>>,
      <<LxVarK, LxLBracket, LxInt0, LxRBracket, LxDoubleArrow, LxVarV>> }

ForeachTexts ==
    {ForeachText(a, t, b) :
        a \in ForeachArrays, t \in {ValueTarget, KeyValueTarget} \cup BadForeachTargets,
        b \in ForeachBodies}

\* class A [extends b] [implements c [, d]] { members }: a member is a property or a
\* method, written with a visibility or none (<<>>) and with or without "static"
Member(visibility, static, what, name) ==
    [visibility |-> visibility, static |-> static, what |-> what, name |-> name]

Visibilities == {<<>>, LxPublic, LxPrivate, LxProtected}

SingleMembers ==
    {<<Member(v, s, "property", LxVarX)>> : v \in Visibilities, s \in BOOLEAN}
        \cup {<<Member(v, s, "method", LxIdentF)>> : v \in Visibilities, s \in BOOLEAN}

MemberLists ==
    {<<>>} \cup SingleMembers
        \cup { <<Member(LxPublic, FALSE, "property", LxVarX),
                 Member(LxPrivate, TRUE, "method", LxIdentF)>>,
               <<Member(<<>>, TRUE, "method", LxIdentF),
                 Member(LxProtected, FALSE, "property", LxVarX)>>,
               <<Member(LxPrivate, TRUE, "property", LxVarX),
                 Member(<<>>, FALSE, "property", LxVarA)>>,
               <<Member(LxProtected, FALSE, "method", LxIdentF),
                 Member(LxPublic, TRUE, "method", LxIdentM)>> }

MemberText(m) ==
    (IF m.visibility = <<>> THEN <<>> ELSE <<m.visibility>>)
        \o (IF m.static THEN <<LxStatic>> ELSE <<>>)
        \o (IF m.what = "property" THEN <<m.name, LxSemicolon>>
            ELSE <<LxFunction, m.name, LxLParen, LxRParen, LxLBrace, LxRBrace>>)

MembersText(ms) ==
    IF Len(ms) = 0 THEN <<>>
    ELSE IF Len(ms) = 1 THEN MemberText(ms[1])
    ELSE MemberText(ms[1]) \o MemberText(ms[2])

\* a class: its superclass (<<>> when there is none), its interfaces and its members
ClassCases ==
    {[super |-> s, interfaces |-> i, members |-> ms] :
        s \in {<<>>, LxIdentB}, i \in {<<>>, <<LxIdentC>>, <<LxIdentC, LxIdentD>>},
        ms \in MemberLists}

ClassText(c) ==
    <<LxClass, LxIdentA>>
        \o (IF c.super = <<>> THEN <<>> ELSE <<LxExtends, c.super>>)
        \o (IF Len(c.interfaces) = 0 THEN <<>>
            ELSE <<LxImplements>> \o CommaList(c.interfaces))
        \o <<LxLBrace>> \o MembersText(c.members) \o <<LxRBrace>>

ClassInputs == [c \in ClassCases |-> Join(ClassText(c))]

\* "content" ; for every content of up to MaxStringLen bytes of letters, digits, blanks
\* and "$", and for Hello $name!
StringAlphabet == {B("a"), B("1"), B(" "), B("$")}

StringContents ==
    SeqsUpTo(StringAlphabet, MaxStringLen)
        \cup {S(<<"H", "e", "l", "l", "o", " ", "$", "n", "a", "m", "e", "!">>)}

StringInputs == [c \in StringContents |-> LxQuote \o c \o LxQuote \o <<B(" ")>> \o LxSemicolon]

\* for ($a = 0; $a < 5; $a<step>) { }
ForText(step) ==
    <<LxFor, LxLParen, LxVarA, LxAssign, LxInt0, LxSemicolon, LxVarA, LxLess, LxInt5,
      LxSemicolon, LxVarA, step, LxRParen, LxLBrace, LxRBrace>>

ForSteps == {LxIncrement, LxDecrement}

ForTexts == {ForText(step) : step \in ForSteps}

\* "=" inside an expression: with a variable on its left as an argument of a call and
\* as the value of an assignment, and with an integer or a member access on its left
NestedAssignTexts ==
    {<<LxIdentF, LxLParen, LxVarA, LxAssign, LxInt1, LxRParen>>,
     <<LxVarA, LxAssign, LxVarB, LxAssign, LxInt5>>}

BadAssignTexts ==
    {<<LxIdentF, LxLParen, LxInt5, LxAssign, LxVarA, LxRParen>>,
     <<LxVarX, LxObjectAccess, LxIdentM, LxAssign, LxInt1>>}

EnumeratedTexts == UNION {SeqsUpTo(V, MaxToks) : V \in Vocabularies}

ParseInputs ==
    {Join(t) : t \in EnumeratedTexts} \cup {Join(t) : t \in TwoOperatorTexts}
        \cup {Join(t) : t \in ProgramTexts} \cup {Join(t) : t \in IndexTexts}
        \cup {Join(t) : t \in PostfixTexts} \cup {Join(t) : t \in LogicalTexts}
        \cup {Join(t) : t \in NamespaceTexts \cup UseTexts \cup UseAsTexts \cup PlainNameTexts}
        \cup {Join(t) : t \in MemberCallTexts} \cup {Join(t) : t \in ForeachTexts}
        \cup {ClassInputs[c] : c \in ClassCases}
        \cup {StringInputs[c] : c \in StringContents}
        \cup {Join(t) : t \in ForTexts}
        \cup {Join(t) : t \in NestedAssignTexts} \cup {Join(t) : t \in BadAssignTexts}

InitParse ==
    /\ \E input \in ParseInputs : l = call("New", <<input>>)
    /\ toks = <<>>
    /\ p = NoParser
    /\ program = <<>>
    /\ sa = NoAnalyzer
    /\ visited = 0
    /\ pc = "new"

\* the Parser p with the Lexer it points to
Here == [l |-> l, curToken |-> p.curToken, peekToken |-> p.peekToken,
         errors |-> p.errors, panicked |-> FALSE]

\* the calls of a step have returned ps: the objects take its fields, unless one of
\* the calls panicked, which ends the run
Returned(ps, next) ==
    IF ps.panicked
    THEN /\ pc' = "panicked"
         /\ UNCHANGED <<l, p>>
    ELSE /\ l' = ps.l
         /\ p' = [curToken |-> ps.curToken, peekToken |-> ps.peekToken,
                  errors |-> ps.errors]
         /\ pc' = next

\* p := NewParser(l); program := &Program{Statements: []Statement{}}
CallNewParser ==
    /\ pc = "new"
    /\ Returned(call("NewParser", <<l>>), "parse")
    /\ UNCHANGED <<toks, program, sa, visited>>

\* if p.curTokenIs(PHP_OPEN) { p.nextToken(); continue }
SkipPhpOpen ==
    /\ pc = "parse"
    /\ p.curToken.Type = "PHP_OPEN"
    /\ Returned(call("nextToken", <<Here>>), "parse")
    /\ UNCHANGED <<toks, program, sa, visited>>

\* if p.curTokenIs(PHP_CLOSE) { p.nextToken(); continue }
SkipPhpClose ==
    /\ pc = "parse"
    /\ p.curToken.Type = "PHP_CLOSE"
    /\ Returned(call("nextToken", <<Here>>), "parse")
    /\ UNCHANGED <<toks, program, sa, visited>>

\* the mutation that does not advance past the statement
ParseTopStatementNoAdvance ==
    /\ pc = "parse"
    /\ p.curToken.Type \notin {"EOF", "PHP_OPEN", "PHP_CLOSE"}
    /\ LET r == call("parseStatement", <<Here>>)
       IN  /\ Returned(r.p, "parse")
           /\ program' = IF ~r.p.panicked /\ ~IsNilInterface(r.n) THEN Append(program, r.n)
                         ELSE program
    /\ UNCHANGED <<toks, sa, visited>>

\* stmt := p.parseStatement(); if stmt != nil { append }; p.nextToken()
ParseTopStatement ==
    /\ pc = "parse"
    /\ p.curToken.Type \notin {"EOF", "PHP_OPEN", "PHP_CLOSE"}
    /\ LET r == call("parseStatement", <<Here>>)
           ps == call("nextToken", <<r.p>>)
       IN  /\ Returned(ps, "parse")
           /\ program' = IF ~ps.panicked /\ ~IsNilInterface(r.n) THEN Append(program, r.n)
                         ELSE program
    /\ UNCHANGED <<toks, sa, visited>>

\* the loop ends on EOF: return program
ReturnProgram ==
    /\ pc = "parse"
    /\ p.curToken.Type = "EOF"
    /\ pc' = "done"
    /\ UNCHANGED <<l, toks, p, program, sa, visited>>

NextParse ==
    \/ CallNewParser
    \/ SkipPhpOpen
    \/ SkipPhpClose
    \/ ParseTopStatement
    \/ ReturnProgram

SpecParse == InitParse /\ [][NextParse]_vars

-----------------------------------------------------------------------------
(* Properties of the lexer *)

\* 1-based line and column of the byte at 0-based offset k of a text: the line is one
\* more than the number of newlines before it, the column its distance from the last
\* of them (or from the start of the text)
NewlinesBefore(input, k) == {j \in 1..k : j <= Len(input) /\ input[j] = B("\n")}

LineOf(input, k) == 1 + Cardinality(NewlinesBefore(input, k))

ColumnOf(input, k) ==
    LET nl == NewlinesBefore(input, k)
    IN  k + 1 - (IF nl = {} THEN 0 ELSE CHOOSE j \in nl : \A i \in nl : i <= j)

\* C1: every call of NextToken returns a token and never panics, whatever the input.
C1_NextTokenNeverPanics == pc # "panicked"

\* the operators of more than one character, with the kind of each
MultiCharOperators ==
    (S(<<"<", "=", ">">>) :> "SPACESHIP") @@ (S(<<"?", "?", "=">>) :> "QUESTION_QUESTION_ASSIGN") @@
    (S(<<"?", "-", ">">>) :> "QUESTION_ARROW") @@ (S(<<"=", "=">>) :> "EQ") @@
    (S(<<"=", ">">>) :> "DOUBLE_ARROW") @@ (S(<<"!", "=">>) :> "NOT_EQ") @@
    (S(<<"<", "=">>) :> "LTE") @@ (S(<<">", "=">>) :> "GTE") @@
    (S(<<"+", "+">>) :> "INCREMENT") @@ (S(<<"-", ">">>) :> "OBJECT_ACCESS") @@
    (S(<<":", ":">>) :> "STATIC_ACCESS") @@ (S(<<"&", "&">>) :> "AND") @@
    (S(<<"|", "|">>) :> "OR") @@ (S(<<"?", "?">>) :> "QUESTION_QUESTION")

StartsAt(input, k, op) ==
    /\ k + Len(op) <= Len(input)
    /\ SubSeq(input, k + 1, k + Len(op)) = op

OperatorsAt(input, k) == {op \in DOMAIN MultiCharOperators : StartsAt(input, k, op)}

C6_EofRepeats ==
    \A i, j \in DOMAIN toks :
        (i < j /\ toks[i].tok.Type = "EOF") =>
            /\ toks[j].tok.Type = "EOF"
            /\ toks[j].tok.Line = toks[i].tok.Line
            /\ toks[j].tok.Column = toks[i].tok.Column

\* C7: every token other than EOF carries the line and column of its first character.
C7_TokenPosition ==
    \A i \in DOMAIN toks :
        toks[i].tok.Type # "EOF" =>
            /\ toks[i].tok.Line = LineOf(l.input, toks[i].start)
            /\ toks[i].tok.Column = ColumnOf(l.input, toks[i].start)

\* NextToken called on the lexer until it returns EOF (or panics): the tokens returned
RECURSIVE tokensFrom(_, _)
tokensFrom(lx, tokens) ==
    LET r == call("NextToken", <<lx>>)
    IN  IF r.panicked THEN tokens
        ELSE IF r.tok.Type = "EOF" THEN Append(tokens, r.tok)
        ELSE tokensFrom(r.l, Append(tokens, r.tok))

Tokenize(input) == tokensFrom(call("New", <<input>>), <<>>)

\* the kinds and literals of a token sequence
KindsAndLiterals(tokens) ==
    [i \in DOMAIN tokens |-> <<tokens[i].Type, tokens[i].Literal>>]

\* C13: comments are never emitted as tokens: the tokens of a text with a // or /* */
\* comment, up to EOF, are the tokens of the text with the comment removed.
C13_CommentsNotTokens ==
    \A c \in CommentTexts :
        (l.input = WithComment(c) /\ EofCalls = 1) =>
            KindsAndLiterals([i \in DOMAIN toks |-> toks[i].tok])
                = KindsAndLiterals(Tokenize(WithoutComment(c)))

-----------------------------------------------------------------------------
(* Properties of the parser *)

\* ParseProgram from NewParser to its return, as one function of the source text: the
\* steps of SpecParse run to their end
RECURSIVE programLoop(_, _)
programLoop(ps, statements) ==
    IF ps.panicked \/ curTokenIs(ps, "EOF") THEN [program |-> statements, p |-> ps]
    ELSE IF curTokenIs(ps, "PHP_OPEN") \/ curTokenIs(ps, "PHP_CLOSE")
    THEN programLoop(call("nextToken", <<ps>>), statements)
    ELSE LET r == call("parseStatement", <<ps>>)
         IN  programLoop(call("nextToken", <<r.p>>),
                         IF IsNilInterface(r.n) THEN statements
                         ELSE Append(statements, r.n))

ParseProgram(input) == programLoop(call("NewParser", <<call("New", <<input>>)>>), <<>>)

RECURSIVE pairNodes(_)
pairNodes(pairs) ==
    IF Len(pairs) = 0 THEN <<>>
    ELSE <<pairs[1].Key, pairs[1].Value>> \o pairNodes(Tail(pairs))

\* the nodes a node points to, in the order of its fields
Children(n) ==
    CASE n.kind \in {"ExpressionStatement", "ThrowStatement"} -> <<n.Expression>>
      [] n.kind = "ReturnStatement" -> <<n.ReturnValue>>
      [] n.kind = "EchoStatement" -> n.Values
      [] n.kind \in {"BreakStatement", "ContinueStatement"} -> <<n.Level>>
      [] n.kind = "BlockStatement" -> n.Statements
      [] n.kind = "IfStatement" -> <<n.Condition, n.Consequence, n.Alternative>>
      [] n.kind = "WhileStatement" -> <<n.Condition, n.Body>>
      [] n.kind = "ForStatement" -> <<n.Init, n.Condition, n.Update, n.Body>>
      [] n.kind = "ForeachStatement" -> <<n.Array, n.Key, n.Value, n.Body>>
      [] n.kind = "FunctionDeclaration" -> <<n.Name>> \o n.Parameters \o <<n.Body>>
      [] n.kind = "AnonymousFunction" -> n.Parameters \o n.UseClause \o <<n.Body>>
      [] n.kind = "MethodDeclaration" -> <<n.Name>> \o n.Parameters \o <<n.Body>>
      [] n.kind = "InterfaceMethod" -> <<n.Name>> \o n.Parameters
      [] n.kind = "PropertyDeclaration" -> <<n.Name, n.Value>>
      [] n.kind = "ConstantDeclaration" -> <<n.Name, n.Value>>
      [] n.kind = "ClassDeclaration" ->
            <<n.Name, n.SuperClass>> \o n.Interfaces \o n.TraitUses \o n.Properties
                \o n.Methods \o n.Constants
      [] n.kind = "InterfaceDeclaration" -> <<n.Name>> \o n.Methods
      [] n.kind = "TraitDeclaration" -> <<n.Name>> \o n.Properties \o n.Methods
      [] n.kind = "TraitUse" -> n.Traits
      [] n.kind = "NamespaceDeclaration" -> <<n.Name>>
      [] n.kind = "UseStatement" -> <<n.Namespace, n.Alias>>
      [] n.kind = "TryStatement" -> <<n.Body>> \o n.Catches \o <<n.Finally>>
      [] n.kind = "CatchClause" -> <<n.ExceptionType, n.Variable, n.Body>>
      [] n.kind = "AssignmentExpression" -> <<n.Name, n.Value>>
      [] n.kind = "InfixExpression" -> <<n.Left, n.Right>>
      [] n.kind = "PrefixExpression" -> <<n.Right>>
      [] n.kind = "PostfixExpression" -> <<n.Left>>
      [] n.kind = "TernaryExpression" -> <<n.Condition, n.TrueValue, n.FalseValue>>
      [] n.kind = "CallExpression" -> <<n.Function>> \o n.Arguments
      [] n.kind = "NewExpression" -> <<n.ClassName>> \o n.Arguments
      [] n.kind = "IndexExpression" -> <<n.Left, n.Index>>
      [] n.kind = "ObjectAccessExpression" -> <<n.Object, n.Property>>
      [] n.kind = "StaticAccessExpression" -> <<n.Class, n.Property>>
      [] n.kind = "YieldExpression" -> <<n.Key, n.Value>>
      [] n.kind = "ArrayLiteral" -> n.Elements
      [] n.kind = "AssociativeArrayLiteral" -> pairNodes(n.Pairs)
      [] n.kind = "InterpolatedString" -> n.Parts
      [] OTHER -> <<>>

\* a node and the nodes below it, and the same for a list of nodes
RECURSIVE Nodes(_), nodesOfAll(_)
Nodes(n) == <<n>> \o nodesOfAll(Children(n))

nodesOfAll(ns) == IF Len(ns) = 0 THEN <<>> ELSE Nodes(ns[1]) \o nodesOfAll(Tail(ns))

Kinds(n) == [i \in DOMAIN Nodes(n) |-> Nodes(n)[i].kind]

SameNode(m, n) == Kinds(m) = Kinds(n) /\ m = n

\* the statements a occur in b, in their order
RECURSIVE IsSubsequence(_, _)
IsSubsequence(a, b) ==
    IF Len(a) = 0 THEN TRUE
    ELSE IF Len(b) = 0 THEN FALSE
    ELSE IF SameNode(a[1], b[1]) THEN IsSubsequence(Tail(a), Tail(b))
    ELSE IsSubsequence(a, Tail(b))

Done == pc = "done"

Parsed(text) == Done /\ l.input = Join(text)

\* the tokens ParseProgram has still to pass: the bytes the lexer has not read, and
\* the tokens of the window that are not EOF
Remaining ==
    (IF l.position < Len(l.input) THEN Len(l.input) - l.position ELSE 0)
        + (IF p.peekToken.Type = "EOF" THEN 0 ELSE 1)
        + (IF p.curToken.Type = "EOF" THEN 0 ELSE 1)

\* C2: ParseProgram terminates on every finite input: run from NewParser on, its loop
\* comes to its end, at EOF or by the panic of the lexer, and every iteration of the
\* loop, with the loops of the statements and expressions it parses, has consumed at
\* least one token or has ended the loop; what is left to consume is finite.
C2_ParseProgramTerminates ==
    [][/\ pc = "new" =>
            LET run == ParseProgram(l.input)
            IN  run.p.panicked \/ run.p.curToken.Type = "EOF"
       /\ pc = "parse" => (pc' # "parse" \/ Remaining' < Remaining)]_vars

\* ParseProgram has returned after the loops of a try statement, a catch list and the
\* blocks in them, or of a class body, ran
C2_Witness ==
    /\ Done
    /\ \E i \in DOMAIN program :
          \/ program[i].kind = "TryStatement" /\ Len(program[i].Catches) > 0
          \/ program[i].kind = "ClassDeclaration" /\ Len(program[i].Methods) > 0

\* the text without its "&"
WithoutAmpersand(input) == SelectSeq(input, LAMBDA b : b # B("&"))

\* C3: when the text holds exactly one unsupported token, a lone "&", and is well-formed
\* otherwise (without the "&" it parses with no error), ParseProgram returns a program
\* with all the statements of the text around the "&" and records exactly one error.
C3_OneUnsupportedToken ==
    (Done /\ Cardinality({i \in DOMAIN l.input : l.input[i] = B("&")}) = 1) =>
        LET clean == ParseProgram(WithoutAmpersand(l.input))
        IN  (~clean.p.panicked /\ Len(clean.p.errors) = 0) =>
                /\ Len(p.errors) = 1
                /\ IsSubsequence(clean.program, program)

\* the classes of the binary operators, from the loosest to the tightest: equality,
\* relational, additive, multiplicative
BindingClass ==
    [t \in {"EQ", "NOT_EQ", "QUESTION_QUESTION"} |-> "1 equality"] @@
    [t \in {"LT", "GT", "LTE", "GTE", "SPACESHIP"} |-> "2 relational"] @@
    [t \in {"PLUS", "MINUS", "CONCAT"} |-> "3 additive"] @@
    [t \in {"MULTIPLY", "DIVIDE", "MODULO"} |-> "4 multiplicative"]

BindsTighter(op2, op1) ==
    <<BindingClass[BinaryOperators[op1]], BindingClass[BinaryOperators[op2]]>> \in
        {<<"1 equality", "2 relational">>, <<"1 equality", "3 additive">>,
         <<"1 equality", "4 multiplicative">>, <<"2 relational", "3 additive">>,
         <<"2 relational", "4 multiplicative">>, <<"3 additive", "4 multiplicative">>}

\* the node of an operand: a variable or an integer
IsOperand(n, lexeme) ==
    IF lexeme[1] = B("$") THEN n.kind = "Variable" /\ n.Name = Tail(lexeme)
    ELSE n.kind = "IntegerLiteral" /\ n.Value = lexeme[1] - B("0")

IsInfix(n, op) == n.kind = "InfixExpression" /\ n.Operator = op

\* C4: a op1 b op2 c, where op2 is of a tighter class than op1, parses as the infix
\* expression of op1 whose right child is the infix expression b op2 c.
C4_TighterOperatorBindsFirst ==
    Done =>
        \A t \in OperandTriples, op1, op2 \in DOMAIN BinaryOperators :
            (l.input = Join(<<t[1], op1, t[2], op2, t[3]>>) /\ BindsTighter(op2, op1)) =>
                /\ Len(p.errors) = 0
                /\ Len(program) = 1
                /\ program[1].kind = "ExpressionStatement"
                /\ IsInfix(program[1].Expression, op1)
                /\ IsOperand(program[1].Expression.Left, t[1])
                /\ IsInfix(program[1].Expression.Right, op2)
                /\ IsOperand(program[1].Expression.Right.Left, t[2])
                /\ IsOperand(program[1].Expression.Right.Right, t[3])

\* $a + $b * $c has been parsed
C4_Witness ==
    /\ Parsed(<<LxVarA, LxPlus, LxVarB, LxStar, LxVarC>>)
    /\ IsInfix(program[1].Expression.Right, LxStar)

AllNodes == nodesOfAll(program)

Assignments == {i \in DOMAIN AllNodes : AllNodes[i].kind = "AssignmentExpression"}

\* C8: the left-hand side of every AssignmentExpression of the tree is a Variable, and
\* the parse of "5 = $x" records an error and yields no AssignmentExpression.
C8_AssignmentTarget ==
    /\ \A i \in Assignments : AllNodes[i].Name.kind = "Variable"
    /\ (Parsed(<<LxInt5, LxAssign, LxVarX>>) \/ Parsed(<<LxInt5, LxAssign, LxVarX, LxSemicolon>>))
        => Len(p.errors) >= 1 /\ Assignments = {}

\* an assignment that parseAssignmentExpression built is in the tree
C8_Witness ==
    /\ Parsed(<<LxVarA, LxCoalesceAssign, LxInt5>>)
    /\ Assignments # {}

\* C9: E[i] parses into one IndexExpression with Left = E and Index = i, with no error.
C9_IndexExpression ==
    \A t \in IndexTexts :
        Parsed(t) =>
            /\ Len(p.errors) = 0
            /\ Len(program) = 1
            /\ program[1].kind = "ExpressionStatement"
            /\ program[1].Expression.kind = "IndexExpression"
            /\ program[1].Expression.Left.kind \in {"Variable", "Identifier"}

\* C10: a ++ or -- after a variable yields a PostfixExpression of that variable and
\* operator, with no error.
C10_PostfixExpression ==
    \A t \in PostfixTexts :
        Parsed(t) =>
            /\ Len(p.errors) = 0
            /\ Len(program) = 1
            /\ program[1].kind = "ExpressionStatement"
            /\ program[1].Expression.kind = "PostfixExpression"
            /\ program[1].Expression.Operator = t[2]
            /\ program[1].Expression.Left.kind = "Variable"

\* C11: a && b and a || b each parse into one InfixExpression with that operator, left
\* operand a and right operand b, with no error.
C11_LogicalOperators ==
    \A t \in LogicalTexts :
        Parsed(t) =>
            /\ Len(p.errors) = 0
            /\ Len(program) = 1
            /\ program[1].kind = "ExpressionStatement"
            /\ IsInfix(program[1].Expression, t[2])
            /\ IsOperand(program[1].Expression.Left, t[1])
            /\ IsOperand(program[1].Expression.Right, t[3])

\* C12: a namespace declaration or use statement whose name has several segments parses
\* with no error into one NamespaceDeclaration or UseStatement that carries the whole
\* qualified name, and the alias when one is given.
C12_QualifiedNames ==
    /\ \A t \in NamespaceTexts :
          Parsed(t) =>
              /\ Len(p.errors) = 0
              /\ Len(program) = 1
              /\ program[1].kind = "NamespaceDeclaration"
              /\ program[1].Name = [kind |-> "Identifier", Value |-> t[2]]
    /\ \A t \in UseTexts \cup UseAsTexts :
          Parsed(t) =>
              /\ Len(p.errors) = 0
              /\ Len(program) = 1
              /\ program[1].kind = "UseStatement"
              /\ program[1].Namespace = [kind |-> "Identifier", Value |-> t[2]]
              /\ IF t \in UseAsTexts
                 THEN program[1].Alias = [kind |-> "Identifier", Value |-> t[4]]
                 ELSE IsNilPointer(program[1].Alias)

\* the argument nodes are the operands args, in order
AreOperands(nodes, args) ==
    /\ Len(nodes) = Len(args)
    /\ \A i \in DOMAIN args : IsOperand(nodes[i], args[i])

\* C14: X->m(args) and A::m(args) parse into a CallExpression whose Function is the
\* access (object X or class A, member m) and whose Arguments are args in order.
C14_CallBindsToAccess ==
    \A args \in ArgumentLists :
        /\ Parsed(MemberCallText(LxVarX, LxObjectAccess, args)) =>
              /\ Len(program) = 1
              /\ program[1].kind = "ExpressionStatement"
              /\ program[1].Expression.kind = "CallExpression"
              /\ program[1].Expression.Function
                    = [kind |-> "ObjectAccessExpression",
                       Object |-> [kind |-> "Variable", Name |-> Tail(LxVarX)],
                       Property |-> [kind |-> "Identifier", Value |-> LxIdentM]]
              /\ AreOperands(program[1].Expression.Arguments, args)
        /\ Parsed(MemberCallText(LxIdentA, LxStaticAccess, args)) =>
              /\ Len(program) = 1
              /\ program[1].kind = "ExpressionStatement"
              /\ program[1].Expression.kind = "CallExpression"
              /\ program[1].Expression.Function
                    = [kind |-> "StaticAccessExpression",
                       Class |-> [kind |-> "Identifier", Value |-> LxIdentA],
                       Property |-> [kind |-> "Identifier", Value |-> LxIdentM]]
              /\ AreOperands(program[1].Expression.Arguments, args)

\* $x -> m ( $a , 1 ) ; has been parsed into a call with two arguments
C14_Witness ==
    /\ Parsed(MemberCallText(LxVarX, LxObjectAccess, <<LxVarA, LxInt1>>))
    /\ program[1].Expression.kind = "CallExpression"
    /\ Len(program[1].Expression.Arguments) = 2

Foreachs == {i \in DOMAIN AllNodes : AllNodes[i].kind = "ForeachStatement"}

\* C15: foreach (E as $k => $v) and foreach (E as $v) give a ForeachStatement whose Key
\* (when written) and Value are the Variable nodes k and v; when the key or the value
\* is anything but a plain variable, an error is recorded and no ForeachStatement is
\* produced.
C15_ForeachTargets ==
    \A a \in ForeachArrays, b \in ForeachBodies :
        /\ Parsed(ForeachText(a, ValueTarget, b)) =>
              /\ Len(p.errors) = 0
              /\ Len(program) = 1
              /\ program[1].kind = "ForeachStatement"
              /\ IsNilPointer(program[1].Key)
              /\ program[1].Value = [kind |-> "Variable", Name |-> Tail(LxVarV)]
        /\ Parsed(ForeachText(a, KeyValueTarget, b)) =>
              /\ Len(p.errors) = 0
              /\ Len(program) = 1
              /\ program[1].kind = "ForeachStatement"
              /\ program[1].Key = [kind |-> "Variable", Name |-> Tail(LxVarK)]
              /\ program[1].Value = [kind |-> "Variable", Name |-> Tail(LxVarV)]
        /\ \A t \in BadForeachTargets :
              Parsed(ForeachText(a, t, b)) =>
                  /\ Len(p.errors) >= 1
                  /\ Foreachs = {}

\* foreach ( $a as $k => $v ) { $v ; } has been parsed into a ForeachStatement
C15_Witness ==
    /\ Parsed(ForeachText(LxVarA, KeyValueTarget, <<LxLBrace, LxVarV, LxSemicolon, LxRBrace>>))
    /\ Foreachs # {}
    /\ Len(program[1].Body.Statements) = 1

\* the members of one kind among ms, each as <<visibility, static, name>>, with "public"
\* for a visibility that is not written
WrittenMembers(ms, what) ==
    LET of == SelectSeq(ms, LAMBDA m : m.what = what)
    IN  [i \in DOMAIN of |->
            <<IF of[i].visibility = <<>> THEN LxPublic ELSE of[i].visibility, of[i].static,
              IF what = "property" THEN Tail(of[i].name) ELSE of[i].name>>]

\* the property or method nodes, each as <<visibility, static, name>>
ParsedMembers(nodes, what) ==
    [i \in DOMAIN nodes |->
        <<nodes[i].Visibility, nodes[i].Static,
          IF what = "property" THEN nodes[i].Name.Name ELSE nodes[i].Name.Value>>]

\* C16: class A [extends b] [implements c, d] { members } parses with no error into one
\* ClassDeclaration with that name, superclass (none when omitted) and interfaces in
\* order, and with its properties and its methods in order, each with the visibility
\* written, or "public", and static exactly when "static" is written.
C16_ClassDeclaration ==
    \A c \in ClassCases :
        (Done /\ l.input = ClassInputs[c]) =>
            /\ Len(p.errors) = 0
            /\ Len(program) = 1
            /\ program[1].kind = "ClassDeclaration"
            /\ program[1].Name = [kind |-> "Identifier", Value |-> LxIdentA]
            /\ IF c.super = <<>> THEN IsNilPointer(program[1].SuperClass)
               ELSE program[1].SuperClass = [kind |-> "Identifier", Value |-> c.super]
            /\ program[1].Interfaces
                  = [i \in DOMAIN c.interfaces |->
                        [kind |-> "Identifier", Value |-> c.interfaces[i]]]
            /\ ParsedMembers(program[1].Properties, "property")
                  = WrittenMembers(c.members, "property")
            /\ ParsedMembers(program[1].Methods, "method")
                  = WrittenMembers(c.members, "method")

\* a class with a superclass, two interfaces, a public property and a private static
\* method has been parsed
C16_Witness ==
    /\ Done
    /\ l.input = ClassInputs[[super |-> LxIdentB, interfaces |-> <<LxIdentC, LxIdentD>>,
                              members |-> <<Member(LxPublic, FALSE, "property", LxVarX),
                                           Member(LxPrivate, TRUE, "method", LxIdentF)>>]]
    /\ Len(program[1].Properties) = 1
    /\ program[1].Methods[1].Static

\* the length of the identifier run of s that starts after offset i: a letter, then
\* letters and digits
RECURSIVE NameLength(_, _, _)
NameLength(s, i, n) ==
    IF i + n < Len(s) /\ (isLetter(s[i + n + 1]) \/ (n > 0 /\ isDigit(s[i + n + 1])))
    THEN NameLength(s, i, n + 1)
    ELSE n

\* the fragments of the text s from offset i on, after the literal text `text` that is
\* not yet closed: a Variable for every "$" with an identifier run, and one
\* StringLiteral for every stretch of text between them
RECURSIVE Fragments(_, _, _)
Fragments(s, i, text) ==
    LET closed == IF text = <<>> THEN <<>> ELSE <<StringLiteralNode(text)>>
        n == NameLength(s, i + 1, 0)
    IN  IF i >= Len(s) THEN closed
        ELSE IF s[i + 1] = B("$") /\ n > 0
        THEN closed \o <<[kind |-> "Variable", Name |-> SubSeq(s, i + 2, i + 1 + n)]>>
                 \o Fragments(s, i + 1 + n, <<>>)
        ELSE Fragments(s, i + 1, Append(text, s[i + 1]))

\* C17: a string literal with a "$" parses into an InterpolatedString whose parts are,
\* in order, a Variable for every "$" followed by an identifier run and one
\* StringLiteral for every stretch of other text, a "$" without an identifier run
\* staying in the text; a literal without "$" parses into a StringLiteral.
C17_InterpolatedString ==
    \A c \in StringContents :
        (Done /\ l.input = StringInputs[c]) =>
            /\ Len(program) = 1
            /\ program[1].kind = "ExpressionStatement"
            /\ IF \E i \in DOMAIN c : c[i] = B("$")
               THEN /\ program[1].Expression.kind = "InterpolatedString"
                    /\ program[1].Expression.Parts = Fragments(c, 0, <<>>)
               ELSE program[1].Expression = StringLiteralNode(c)

SamePrecedence(op1, op2) ==
    precedences[BinaryOperators[op1]] = precedences[BinaryOperators[op2]]

\* C25: a op1 b op2 c, where op1 and op2 are binary operators of the same precedence,
\* parses with no error as the infix expression of op2 whose left child is the infix
\* expression a op1 b and whose right child is c.
C25_LeftAssociative ==
    Done =>
        \A t \in OperandTriples, op1, op2 \in DOMAIN BinaryOperators :
            (l.input = Join(<<t[1], op1, t[2], op2, t[3]>>) /\ SamePrecedence(op1, op2)) =>
                /\ Len(p.errors) = 0
                /\ Len(program) = 1
                /\ program[1].kind = "ExpressionStatement"
                /\ IsInfix(program[1].Expression, op2)
                /\ IsInfix(program[1].Expression.Left, op1)
                /\ IsOperand(program[1].Expression.Left.Left, t[1])
                /\ IsOperand(program[1].Expression.Left.Right, t[2])
                /\ IsOperand(program[1].Expression.Right, t[3])

\* $a - $b + $c has been parsed
C25_Witness ==
    /\ Parsed(<<LxVarA, S(<<"-">>), LxVarB, LxPlus, LxVarC>>)
    /\ IsInfix(program[1].Expression, LxPlus)
    /\ IsInfix(program[1].Expression.Left, S(<<"-">>))

Blocks == {i \in DOMAIN AllNodes : AllNodes[i].kind = "BlockStatement"}

\* C26: when the parse is over, every element of Program.Statements and of the
\* Statements of every BlockStatement of the tree is a statement node, not a nil
\* pointer.
C26_StatementsPresent ==
    Done =>
        /\ \A i \in DOMAIN program : ~IsNilPointer(program[i])
        /\ \A b \in Blocks :
              \A i \in DOMAIN AllNodes[b].Statements :
                  ~IsNilPointer(AllNodes[b].Statements[i])

\* C24: for ($a = 0; $a < 5; $a++) { } and the same loop with $a-- parse with no
\* error into one ForStatement whose Update is the PostfixExpression of the variable
\* a with the operator that was written.
C24_ForUpdate ==
    \A step \in ForSteps :
        Parsed(ForText(step)) =>
            /\ Len(p.errors) = 0
            /\ Len(program) = 1
            /\ program[1].kind = "ForStatement"
            /\ program[1].Update.kind = "PostfixExpression"
            /\ program[1].Update.Left = [kind |-> "Variable", Name |-> Tail(LxVarA)]
            /\ program[1].Update.Operator = step

IsAssignment(n, name) ==
    n.kind = "AssignmentExpression" /\ n.Name = [kind |-> "Variable", Name |-> Tail(name)]

\* C23: a "=" that follows an expression inside an expression is taken by the infix
\* handler of assignment: f($a = 1) and $a = $b = 5 parse with no error into trees
\* that hold the AssignmentExpression of the inner variable, and f(5 = $a) and
\* $x->m = 1 record the error "left side of assignment must be a variable".
C23_AssignmentInExpression ==
    /\ Parsed(<<LxIdentF, LxLParen, LxVarA, LxAssign, LxInt1, LxRParen>>) =>
          /\ Len(p.errors) = 0
          /\ Len(program) = 1
          /\ program[1].Expression.kind = "CallExpression"
          /\ Len(program[1].Expression.Arguments) = 1
          /\ IsAssignment(program[1].Expression.Arguments[1], LxVarA)
    /\ Parsed(<<LxVarA, LxAssign, LxVarB, LxAssign, LxInt5>>) =>
          /\ Len(p.errors) = 0
          /\ Len(program) = 1
          /\ IsAssignment(program[1].Expression, LxVarA)
          /\ IsAssignment(program[1].Expression.Value, LxVarB)
    /\ \A t \in BadAssignTexts :
          Parsed(t) =>
              \E i \in DOMAIN p.errors :
                  p.errors[i].format = "left side of assignment must be a variable"

\* the text a part of an InterpolatedString stands for
PartText(part) == IF part.kind = "Variable" THEN <<B("$")>> \o part.Name ELSE part.Value

RECURSIVE PartsText(_)
PartsText(parts) ==
    IF parts = <<>> THEN <<>> ELSE PartText(Head(parts)) \o PartsText(Tail(parts))

HasDollar(c) == \E i \in DOMAIN c : c[i] = B("$")

\* C30: a string literal with a "$" parses into an InterpolatedString whose parts,
\* written one after the other (a Variable as "$" and its name, a StringLiteral as
\* its value), give back the literal byte for byte.
C30_InterpolationKeepsText ==
    \A c \in StringContents :
        (Done /\ l.input = StringInputs[c] /\ HasDollar(c)) =>
            /\ Len(program) = 1
            /\ program[1].kind = "ExpressionStatement"
            /\ program[1].Expression.kind = "InterpolatedString"
            /\ PartsText(program[1].Expression.Parts) = c

\* the literal "$$a" was parsed: a "$" that names no variable, then a variable
C30_Witness ==
    /\ Done
    /\ l.input = StringInputs[S(<<"$", "$", "a">>)]
    /\ Len(program) = 1
    /\ program[1].Expression.kind = "InterpolatedString"
    /\ Len(program[1].Expression.Parts) = 2
    /\ program[1].Expression.Parts[2].kind = "Variable"

-----------------------------------------------------------------------------
(* The symbol table (semantic.go)                                          *)
(*                                                                         *)
(* The scopes a SymbolTable points to are kept in the sequence `scopes`;   *)
(* a *Scope is an index into it and 0 is the nil pointer.  A Go map is a   *)
(* function on its keys.  A Symbol is never written after it is made, so   *)
(* the maps hold the Symbol itself in the place of the pointer.  File,     *)
(* Line and Column are left out: no property reads them.                   *)

\* SymbolType
CLASS_SYMBOL == 0
FUNCTION_SYMBOL == 1
VARIABLE_SYMBOL == 2
CONSTANT_SYMBOL == 3
INTERFACE_SYMBOL == 4
TRAIT_SYMBOL == 5

\* a nil *Symbol
NilSymbol == NilOf("*Symbol")

\* make(map[K]V)
EmptyMap == [k \in {} |-> Nil]

\* m[k] = v
MapPut(m, k, v) == [x \in (DOMAIN m) \cup {k} |-> IF x = k THEN v ELSE m[x]]

\* strings.HasPrefix(s, prefix)
HasPrefix(s, prefix) == Len(s) >= Len(prefix) /\ SubSeq(s, 1, Len(prefix)) = prefix

\* the Scope st.CurrentScope points to
CurrentScope(st) == st.scopes[st.CurrentScope]

NewSymbolTable ==
    [scopes |-> <<[Type |-> "global", Name |-> S(<<"g", "l", "o", "b", "a", "l">>),
                   Parent |-> 0, Symbols |-> EmptyMap, Children |-> <<>>,
                   Namespace |-> <<>>, Imports |-> EmptyMap]>>,
     GlobalScope |-> 1,
     CurrentScope |-> 1,
     AllSymbols |-> EmptyMap,
     References |-> <<>>,
     Namespaces |-> EmptyMap,
     ClassHierarchy |-> EmptyMap]

\* the mutation that leaves the import table of the new scope empty
EnterScopeNoImports(st, scopeType, name) ==
    LET newScope == [Type |-> scopeType, Name |-> name, Parent |-> st.CurrentScope,
                     Symbols |-> EmptyMap, Children |-> <<>>,
                     Namespace |-> CurrentScope(st).Namespace,
                     Imports |-> EmptyMap]
        new == Len(st.scopes) + 1
        linked == [st.scopes EXCEPT ![st.CurrentScope].Children = Append(@, new)]
    IN  [st EXCEPT !.scopes = Append(linked, newScope), !.CurrentScope = new]

EnterScope(st, scopeType, name) ==
    LET newScope == [Type |-> scopeType, Name |-> name, Parent |-> st.CurrentScope,
                     Symbols |-> EmptyMap, Children |-> <<>>,
                     Namespace |-> CurrentScope(st).Namespace,
                     Imports |-> CurrentScope(st).Imports]
        new == Len(st.scopes) + 1
        linked == [st.scopes EXCEPT ![st.CurrentScope].Children = Append(@, new)]
    IN  [st EXCEPT !.scopes = Append(linked, newScope), !.CurrentScope = new]

ExitScope(st) ==
    IF CurrentScope(st).Parent # 0
    THEN [st EXCEPT !.CurrentScope = CurrentScope(st).Parent]
    ELSE st

SetNamespace(st, namespace) ==
    [st EXCEPT !.scopes[st.CurrentScope].Namespace = namespace]

AddImport(st, fullyQualified, alias) ==
    LET parts == Split(fullyQualified, B("\\"))
        name == IF alias = <<>> THEN parts[Len(parts)] ELSE alias
    IN  [st EXCEPT !.scopes[st.CurrentScope].Imports = MapPut(@, name, fullyQualified)]

makeFullyQualified(st, name) ==
    IF HasPrefix(name, LxBackslash) THEN name
    ELSE IF CurrentScope(st).Namespace = <<>> THEN name
    ELSE CurrentScope(st).Namespace \o LxBackslash \o name

\* the result is the table and the Symbol that was declared
DeclareSymbol(st, name, symbolType) ==
    LET symbol == [kind |-> "Symbol", Name |-> name,
                   FullyQualified |-> makeFullyQualified(st, name),
                   Type |-> symbolType, Namespace |-> CurrentScope(st).Namespace]
        inNamespace == IF symbol.Namespace \in DOMAIN st.Namespaces
                       THEN st.Namespaces[symbol.Namespace]
                       ELSE <<>>
    IN  [st |-> [st EXCEPT !.scopes[st.CurrentScope].Symbols = MapPut(@, name, symbol),
                           !.AllSymbols = MapPut(@, symbol.FullyQualified, symbol),
                           !.Namespaces = MapPut(@, symbol.Namespace,
                                                 Append(inNamespace, symbol))],
         symbol |-> symbol]

\* symbol, exists := m[name]; exists && symbol.Type == symbolType
Declared(m, name, symbolType) == name \in DOMAIN m /\ m[name].Type = symbolType

\* for scope != nil { ...; scope = scope.Parent }: step 3 of ResolveSymbol
RECURSIVE resolveInScopes(_, _, _, _)
resolveInScopes(st, scope, name, symbolType) ==
    IF scope = 0 THEN NilSymbol
    ELSE IF Declared(st.scopes[scope].Symbols, name, symbolType)
    THEN st.scopes[scope].Symbols[name]
    ELSE resolveInScopes(st, st.scopes[scope].Parent, name, symbolType)

\* the mutation that looks in the scopes before it looks in the imports
ResolveSymbolScopesFirst(st, name, symbolType) ==
    LET imports == CurrentScope(st).Imports
        inScopes == resolveInScopes(st, st.CurrentScope, name, symbolType)
        currentNamespace == CurrentScope(st).Namespace
        fqn == currentNamespace \o LxBackslash \o name
    IN  IF HasPrefix(name, LxBackslash)
        THEN IF Declared(st.AllSymbols, name, symbolType) THEN st.AllSymbols[name]
             ELSE NilSymbol
        ELSE IF ~IsNilPointer(inScopes) THEN inScopes
        ELSE IF name \in DOMAIN imports /\ Declared(st.AllSymbols, imports[name], symbolType)
        THEN st.AllSymbols[imports[name]]
        ELSE IF currentNamespace # <<>> /\ Declared(st.AllSymbols, fqn, symbolType)
        THEN st.AllSymbols[fqn]
        ELSE IF Declared(st.AllSymbols, name, symbolType) THEN st.AllSymbols[name]
        ELSE NilSymbol

ResolveSymbol(st, name, symbolType) ==
    LET imports == CurrentScope(st).Imports
        inScopes == resolveInScopes(st, st.CurrentScope, name, symbolType)
        currentNamespace == CurrentScope(st).Namespace
        fqn == currentNamespace \o LxBackslash \o name
    IN  IF HasPrefix(name, LxBackslash)
        THEN IF Declared(st.AllSymbols, name, symbolType) THEN st.AllSymbols[name]
             ELSE NilSymbol
        ELSE IF name \in DOMAIN imports /\ Declared(st.AllSymbols, imports[name], symbolType)
        THEN st.AllSymbols[imports[name]]
        ELSE IF ~IsNilPointer(inScopes) THEN inScopes
        ELSE IF currentNamespace # <<>> /\ Declared(st.AllSymbols, fqn, symbolType)
        THEN st.AllSymbols[fqn]
        ELSE IF Declared(st.AllSymbols, name, symbolType) THEN st.AllSymbols[name]
        ELSE NilSymbol

\* the result is the table and the SymbolReference that was added
AddReference(st, name, symbolType) ==
    LET ref == [Name |-> name, ResolvedSymbol |-> ResolveSymbol(st, name, symbolType)]
    IN  [st |-> [st EXCEPT !.References = Append(@, ref)], ref |-> ref]

AddClassHierarchy(st, className, extends, implements) ==
    LET hierarchy == (IF extends # <<>> THEN <<extends>> ELSE <<>>) \o implements
    IN  [st EXCEPT !.ClassHierarchy = MapPut(@, className, hierarchy)]

GetUnresolvedReferences(st) ==
    SelectSeq(st.References, LAMBDA ref : IsNilPointer(ref.ResolvedSymbol))

-----------------------------------------------------------------------------
(* The semantic analyzer (semantic.go) *)

NewSemanticAnalyzer == [SymbolTable |-> NewSymbolTable, Errors |-> <<>>]

\* a visit changes the table of the analyzer only
With(a, st) == [a EXCEPT !.SymbolTable = st]

RECURSIVE visitStatement(_, _), visitExpression(_, _)

\* for _, node := range nodes { visit(node) }, over statements or over expressions
RECURSIVE visitEach(_, _, _)
visitEach(a, nodes, statements) ==
    IF nodes = <<>> THEN a
    ELSE visitEach(IF statements THEN visitStatement(a, Head(nodes))
                   ELSE visitExpression(a, Head(nodes)),
                   Tail(nodes), statements)

\* for _, param := range Parameters { DeclareSymbol(param.Name, VARIABLE_SYMBOL, ...) }
RECURSIVE declareParameters(_, _)
declareParameters(st, params) ==
    IF params = <<>> THEN st
    ELSE declareParameters(DeclareSymbol(st, Head(params).Name, VARIABLE_SYMBOL).st,
                           Tail(params))

visitNamespaceDeclaration(a, stmt) ==
    With(a, SetNamespace(a.SymbolTable, stmt.Name.Value))

visitUseStatement(a, stmt) ==
    LET alias == IF IsNilPointer(stmt.Alias) THEN <<>> ELSE stmt.Alias.Value
    IN  With(a, AddImport(a.SymbolTable, stmt.Namespace.Value, alias))

visitBlockStatement(a, stmt) == visitEach(a, stmt.Statements, TRUE)

visitConstantDeclaration(a, stmt) ==
    visitExpression(With(a, DeclareSymbol(a.SymbolTable, stmt.Name.Value, CONSTANT_SYMBOL).st),
                    stmt.Value)

visitPropertyDeclaration(a, stmt) ==
    LET declared == With(a, DeclareSymbol(a.SymbolTable, stmt.Name.Name, VARIABLE_SYMBOL).st)
    IN  IF IsNilInterface(stmt.Value) THEN declared
        ELSE visitExpression(declared, stmt.Value)

\* visitFunctionDeclaration and visitMethodDeclaration differ in the type of the scope
visitCallable(a, stmt, scopeType) ==
    LET declared == DeclareSymbol(a.SymbolTable, stmt.Name.Value, FUNCTION_SYMBOL).st
        entered == declareParameters(EnterScope(declared, scopeType, stmt.Name.Value),
                                     stmt.Parameters)
        visitedBody == visitBlockStatement(With(a, entered), stmt.Body)
    IN  With(visitedBody, ExitScope(visitedBody.SymbolTable))

visitFunctionDeclaration(a, stmt) == visitCallable(a, stmt, "function")

\* the mutation that stays in the scope of the method
visitMethodDeclarationNoExit(a, stmt) ==
    LET declared == DeclareSymbol(a.SymbolTable, stmt.Name.Value, FUNCTION_SYMBOL).st
        entered == declareParameters(EnterScope(declared, "method", stmt.Name.Value),
                                     stmt.Parameters)
    IN  visitBlockStatement(With(a, entered), stmt.Body)

visitMethodDeclaration(a, stmt) == visitCallable(a, stmt, "method")

visitInterfaceMethod(a, stmt) ==
    With(a, DeclareSymbol(a.SymbolTable, stmt.Name.Value, FUNCTION_SYMBOL).st)

\* the loops over the members of a class, of an interface and of a trait
RECURSIVE visitMembers(_, _)
visitMembers(a, members) ==
    IF members = <<>> THEN a
    ELSE LET m == Head(members)
         IN  visitMembers(CASE m.kind = "ConstantDeclaration" -> visitConstantDeclaration(a, m)
                            [] m.kind = "PropertyDeclaration" -> visitPropertyDeclaration(a, m)
                            [] m.kind = "MethodDeclaration" -> visitMethodDeclaration(a, m)
                            [] m.kind = "InterfaceMethod" -> visitInterfaceMethod(a, m),
                          Tail(members))

visitClassDeclaration(a, stmt) ==
    LET declared == DeclareSymbol(a.SymbolTable, stmt.Name.Value, CLASS_SYMBOL)
        extends == IF IsNilPointer(stmt.SuperClass) THEN <<>> ELSE stmt.SuperClass.Value
        implements == [i \in DOMAIN stmt.Interfaces |-> stmt.Interfaces[i].Value]
        hierarchy == AddClassHierarchy(declared.st, declared.symbol.FullyQualified,
                                       extends, implements)
        entered == With(a, EnterScope(hierarchy, "class", stmt.Name.Value))
        visitedBody == visitMembers(entered, stmt.Constants \o stmt.Properties \o stmt.Methods)
    IN  With(visitedBody, ExitScope(visitedBody.SymbolTable))

visitInterfaceDeclaration(a, stmt) ==
    LET declared == DeclareSymbol(a.SymbolTable, stmt.Name.Value, INTERFACE_SYMBOL).st
        entered == With(a, EnterScope(declared, "interface", stmt.Name.Value))
        visitedBody == visitMembers(entered, stmt.Methods)
    IN  With(visitedBody, ExitScope(visitedBody.SymbolTable))

visitTraitDeclaration(a, stmt) ==
    LET declared == DeclareSymbol(a.SymbolTable, stmt.Name.Value, TRAIT_SYMBOL).st
        entered == With(a, EnterScope(declared, "trait", stmt.Name.Value))
        visitedBody == visitMembers(entered, stmt.Properties \o stmt.Methods)
    IN  With(visitedBody, ExitScope(visitedBody.SymbolTable))

\* for _, useVar := range expr.UseClause { AddReference(useVar.Name, VARIABLE_SYMBOL, ...) }
RECURSIVE referUseClause(_, _)
referUseClause(st, useClause) ==
    IF useClause = <<>> THEN st
    ELSE referUseClause(AddReference(st, Head(useClause).Name, VARIABLE_SYMBOL).st,
                        Tail(useClause))

visitAnonymousFunction(a, expr) ==
    LET entered == EnterScope(a.SymbolTable, "function",
                              S(<<"a", "n", "o", "n", "y", "m", "o", "u", "s">>))
        referred == referUseClause(declareParameters(entered, expr.Parameters),
                                   expr.UseClause)
        visitedBody == visitBlockStatement(With(a, referred), expr.Body)
    IN  With(visitedBody, ExitScope(visitedBody.SymbolTable))

visitCatchClause(a, clause) ==
    LET referred == IF IsNilPointer(clause.ExceptionType) THEN a.SymbolTable
                    ELSE AddReference(a.SymbolTable, clause.ExceptionType.Value,
                                      CLASS_SYMBOL).st
        declared == DeclareSymbol(referred, clause.Variable.Name, VARIABLE_SYMBOL).st
    IN  visitBlockStatement(With(a, declared), clause.Body)

RECURSIVE visitCatches(_, _)
visitCatches(a, catches) ==
    IF catches = <<>> THEN a
    ELSE visitCatches(visitCatchClause(a, Head(catches)), Tail(catches))

visitTryStatement(a, stmt) ==
    LET caught == visitCatches(visitBlockStatement(a, stmt.Body), stmt.Catches)
    IN  IF IsNilPointer(stmt.Finally) THEN caught
        ELSE visitBlockStatement(caught, stmt.Finally)

visitNewExpression(a, expr) ==
    visitEach(With(a, AddReference(a.SymbolTable, expr.ClassName.Value, CLASS_SYMBOL).st),
              expr.Arguments, FALSE)

visitCallExpression(a, expr) ==
    visitEach(IF expr.Function.kind = "Identifier"
              THEN With(a, AddReference(a.SymbolTable, expr.Function.Value,
                                        FUNCTION_SYMBOL).st)
              ELSE visitExpression(a, expr.Function),
              expr.Arguments, FALSE)

visitAssignmentExpression(a, expr) ==
    visitExpression(With(a, DeclareSymbol(a.SymbolTable, expr.Name.Name, VARIABLE_SYMBOL).st),
                    expr.Value)

visitReturnStatement(a, stmt) ==
    IF IsNilInterface(stmt.ReturnValue) THEN a ELSE visitExpression(a, stmt.ReturnValue)

addIdentifierReference(a, identifier) ==
    LET function == AddReference(a.SymbolTable, identifier.Value, FUNCTION_SYMBOL)
    IN  IF IsNilPointer(function.ref.ResolvedSymbol)
        THEN With(a, AddReference(function.st, identifier.Value, CONSTANT_SYMBOL).st)
        ELSE With(a, function.st)

\* the type switch, over the kinds of statement of the programs that are analysed
visitStatement(a, stmt) ==
    CASE stmt.kind = "NamespaceDeclaration" -> visitNamespaceDeclaration(a, stmt)
      [] stmt.kind = "UseStatement" -> visitUseStatement(a, stmt)
      [] stmt.kind = "ClassDeclaration" -> visitClassDeclaration(a, stmt)
      [] stmt.kind = "InterfaceDeclaration" -> visitInterfaceDeclaration(a, stmt)
      [] stmt.kind = "TraitDeclaration" -> visitTraitDeclaration(a, stmt)
      [] stmt.kind = "FunctionDeclaration" -> visitFunctionDeclaration(a, stmt)
      [] stmt.kind = "ExpressionStatement" -> visitExpression(a, stmt.Expression)
      [] stmt.kind = "BlockStatement" -> visitBlockStatement(a, stmt)
      [] stmt.kind = "ReturnStatement" -> visitReturnStatement(a, stmt)
      [] stmt.kind = "TryStatement" -> visitTryStatement(a, stmt)
      [] OTHER -> a

\* the type switch, over the kinds of expression of the programs that are analysed
visitExpression(a, expr) ==
    CASE expr.kind = "NewExpression" -> visitNewExpression(a, expr)
      [] expr.kind = "CallExpression" -> visitCallExpression(a, expr)
      [] expr.kind = "AssignmentExpression" -> visitAssignmentExpression(a, expr)
      [] expr.kind = "AnonymousFunction" -> visitAnonymousFunction(a, expr)
      [] expr.kind = "Identifier" -> addIdentifierReference(a, expr)
      [] OTHER -> a

\* an error of ValidateReferences: "Undefined symbol '<Name>' at line <Line>"
UndefinedSymbol(ref) == [message |-> "Undefined symbol", Name |-> ref.Name]

ValidateReferences(a) ==
    LET unresolved == GetUnresolvedReferences(a.SymbolTable)
    IN  [a EXCEPT !.Errors = @ \o [i \in DOMAIN unresolved |-> UndefinedSymbol(unresolved[i])]]

-----------------------------------------------------------------------------
(* The analysis of a program: AnalyzeProgram and ValidateReferences, as    *)
(* ParseWithSemantics calls them on the Program it was handed              *)

LxQualifiedBC == S(<<"b", "\\", "c">>)
LxQualifiedBD == S(<<"b", "\\", "d">>)

Identifier(value) == [kind |-> "Identifier", Value |-> value]

\* namespace <name>;
NamespaceStatement(name) == [kind |-> "NamespaceDeclaration", Name |-> Identifier(name)]

\* use <namespace>;  or  use <namespace> as <alias>;  when alias is not empty
UseStatement(namespace, alias) ==
    [kind |-> "UseStatement", Namespace |-> Identifier(namespace),
     Alias |-> IF alias = <<>> THEN NilOf("*Identifier") ELSE Identifier(alias)]

\* new <class>;
NewStatement(class) ==
    [kind |-> "ExpressionStatement",
     Expression |-> [kind |-> "NewExpression", ClassName |-> Identifier(class),
                     Arguments |-> <<>>]]

\* public function <name>() { <body> }
Method(name, body) ==
    [kind |-> "MethodDeclaration", Visibility |-> PublicVisibility, Static |-> FALSE,
     Name |-> Identifier(name), Parameters |-> <<>>,
     Body |-> [kind |-> "BlockStatement", Statements |-> body]]

\* class <name> { <methods> }
ClassStatement(name, methods) ==
    [kind |-> "ClassDeclaration", Name |-> Identifier(name),
     SuperClass |-> NilOf("*Identifier"), Interfaces |-> <<>>, TraitUses |-> <<>>,
     Properties |-> <<>>, Methods |-> methods, Constants |-> <<>>]

\* class d { public function m() { new d; } }
ClassWithReference == ClassStatement(LxIdentD, <<Method(LxIdentM, <<NewStatement(LxIdentD)>>)>>)

\* the statements the analysed programs are made of
SemStatements ==
    {NamespaceStatement(LxIdentB),
     ClassStatement(LxIdentC, <<>>),
     ClassWithReference,
     UseStatement(LxQualifiedBC, <<>>),
     UseStatement(LxQualifiedBC, LxIdentD),
     UseStatement(LxQualifiedABC, <<>>),
     NewStatement(LxIdentC)}

Block(statements) == [kind |-> "BlockStatement", Statements |-> statements]

\* interface c { public function m(); }
InterfaceStatement ==
    [kind |-> "InterfaceDeclaration", Name |-> Identifier(LxIdentC),
     Methods |-> <<[kind |-> "InterfaceMethod", Visibility |-> PublicVisibility,
                    Name |-> Identifier(LxIdentM), Parameters |-> <<>>]>>]

\* trait d { public function m() { } }
TraitStatement ==
    [kind |-> "TraitDeclaration", Name |-> Identifier(LxIdentD), Properties |-> <<>>,
     Methods |-> <<Method(LxIdentM, <<>>)>>]

\* function f() { new c; }
FunctionStatement ==
    [kind |-> "FunctionDeclaration", Name |-> Identifier(LxIdentF), Parameters |-> <<>>,
     Body |-> Block(<<NewStatement(LxIdentC)>>)]

\* function () use ($c) { };
AnonymousStatement ==
    [kind |-> "ExpressionStatement",
     Expression |-> [kind |-> "AnonymousFunction", Parameters |-> <<>>,
                     UseClause |-> <<[kind |-> "Variable", Name |-> LxIdentC]>>,
                     Body |-> Block(<<>>)]]

\* try { } catch (c $e) { new c; }
TryStatement ==
    [kind |-> "TryStatement", Body |-> Block(<<>>),
     Catches |-> <<[kind |-> "CatchClause", ExceptionType |-> Identifier(LxIdentC),
                    Variable |-> [kind |-> "Variable", Name |-> Tail(LxVarE)],
                    Body |-> Block(<<NewStatement(LxIdentC)>>)]>>,
     Finally |-> NilOf("*BlockStatement")]

\* class d { public function m() { } public function f() { } }
ClassWithMethods ==
    ClassStatement(LxIdentD, <<Method(LxIdentM, <<>>), Method(LxIdentF, <<>>)>>)

\* $c = 1;
AssignStatement ==
    [kind |-> "ExpressionStatement",
     Expression |-> [kind |-> "AssignmentExpression",
                     Name |-> [kind |-> "Variable", Name |-> LxIdentC],
                     Value |-> [kind |-> "IntegerLiteral", Value |-> 1]]]

\* the statements of the programs that open scopes and declare variables
ScopeStatements ==
    {InterfaceStatement, TraitStatement, FunctionStatement, AnonymousStatement,
     TryStatement, ClassWithMethods, AssignStatement,
     ClassStatement(LxIdentC, <<>>), NewStatement(LxIdentC)}

SemPrograms ==
    SeqsUpTo(SemStatements, MaxStatements)
        \cup SeqsUpTo(ScopeStatements, MaxScopeStatements)

\* the names and the types that are looked up
SemNames == {LxIdentC, LxIdentD, LxIdentM}

SymbolTypes == {CLASS_SYMBOL, FUNCTION_SYMBOL, VARIABLE_SYMBOL, CONSTANT_SYMBOL,
                INTERFACE_SYMBOL, TRAIT_SYMBOL}

\* analyzer := NewSemanticAnalyzer(); analyzer.AnalyzeProgram(program, filename)
InitSem ==
    /\ l = Nil
    /\ toks = <<>>
    /\ p = NoParser
    /\ program \in SemPrograms
    /\ sa = NewSemanticAnalyzer
    /\ visited = 0
    /\ pc = "analyze"

\* for _, stmt := range program.Statements { sa.visitStatement(stmt) }
VisitTopStatement ==
    /\ pc = "analyze"
    /\ visited < Len(program)
    /\ sa' = visitStatement(sa, program[visited + 1])
    /\ visited' = visited + 1
    /\ UNCHANGED <<l, toks, p, program, pc>>

\* analyzer.ValidateReferences()
CallValidateReferences ==
    /\ pc = "analyze"
    /\ visited = Len(program)
    /\ sa' = ValidateReferences(sa)
    /\ pc' = "validated"
    /\ UNCHANGED <<l, toks, p, program, visited>>

NextSem ==
    \/ VisitTopStatement
    \/ CallValidateReferences

SpecSem == InitSem /\ [][NextSem]_vars

-----------------------------------------------------------------------------
(* The symbol table driven call by call: any sequence of EnterScope,       *)
(* ExitScope, AddImport and SetNamespace on one SymbolTable                *)

\* the fully qualified names and the aliases the calls of AddImport are given
TableImports == {LxQualifiedAB, LxQualifiedBC}
TableAliases == {<<>>, LxIdentU}

InitTable ==
    /\ l = Nil
    /\ toks = <<>>
    /\ p = NoParser
    /\ program = <<>>
    /\ sa = NewSemanticAnalyzer
    /\ visited = 0
    /\ pc = "table"

\* st.EnterScope("class", name)
CallEnterScope ==
    /\ pc = "table"
    /\ visited < MaxCalls
    /\ sa' = With(sa, EnterScope(sa.SymbolTable, "class", LxIdentC))
    /\ visited' = visited + 1
    /\ UNCHANGED <<l, toks, p, program, pc>>

\* st.ExitScope()
CallExitScope ==
    /\ pc = "table"
    /\ visited < MaxCalls
    /\ sa' = With(sa, ExitScope(sa.SymbolTable))
    /\ visited' = visited + 1
    /\ UNCHANGED <<l, toks, p, program, pc>>

\* st.AddImport(fullyQualified, alias)
CallAddImport ==
    /\ pc = "table"
    /\ visited < MaxCalls
    /\ \E fullyQualified \in TableImports, alias \in TableAliases :
           sa' = With(sa, AddImport(sa.SymbolTable, fullyQualified, alias))
    /\ visited' = visited + 1
    /\ UNCHANGED <<l, toks, p, program, pc>>

\* st.SetNamespace(namespace)
CallSetNamespace ==
    /\ pc = "table"
    /\ visited < MaxCalls
    /\ sa' = With(sa, SetNamespace(sa.SymbolTable, LxIdentA))
    /\ visited' = visited + 1
    /\ UNCHANGED <<l, toks, p, program, pc>>

NextTable ==
    \/ CallEnterScope
    \/ CallExitScope
    \/ CallAddImport
    \/ CallSetNamespace

SpecTable == InitTable /\ [][NextTable]_vars

\* C27: a call that opens a scope gives the new scope the import table its parent has
\* at that moment and changes the import table of no other scope; any other call
\* changes at most the import table of the scope it is made in.
C27_ImportsCopiedOnEntry ==
    [][LET st == sa.SymbolTable
           after == sa'.SymbolTable
       IN  /\ Len(after.scopes) = Len(st.scopes) + 1 =>
                  /\ after.scopes[Len(after.scopes)].Parent = st.CurrentScope
                  /\ after.scopes[Len(after.scopes)].Imports = CurrentScope(st).Imports
                  /\ \A s \in DOMAIN st.scopes :
                         after.scopes[s].Imports = st.scopes[s].Imports
           /\ Len(after.scopes) = Len(st.scopes) =>
                  \A s \in DOMAIN st.scopes :
                      s # st.CurrentScope =>
                          after.scopes[s].Imports = st.scopes[s].Imports]_vars

\* two scopes of one parent: the first holds an alias that was added inside it, the
\* parent and the scope entered after it do not, and both hold an alias of the parent
C27_Witness ==
    /\ pc = "table"
    /\ LET scopes == sa.SymbolTable.scopes
       IN  \E first, later \in DOMAIN scopes :
               /\ first < later
               /\ scopes[first].Parent = scopes[later].Parent
               /\ LET parent == scopes[scopes[first].Parent]
                  IN  /\ LxIdentU \in DOMAIN scopes[first].Imports
                      /\ LxIdentU \notin DOMAIN parent.Imports
                      /\ LxIdentU \notin DOMAIN scopes[later].Imports
                      /\ LxIdentB \in DOMAIN parent.Imports
                      /\ LxIdentB \in DOMAIN scopes[first].Imports
                      /\ LxIdentB \in DOMAIN scopes[later].Imports

-----------------------------------------------------------------------------
(* Several runs side by side.  A run is what ParseWithSemantics does for   *)
(* one source text: New, NewParser, the loop of ParseProgram, then, when   *)
(* the parser has no errors, AnalyzeProgram and ValidateReferences on a    *)
(* new SemanticAnalyzer; with errors the run ends in pc = "failed".  Here  *)
(* l is the heap of Lexer objects and p, program, sa, visited, pc and toks *)
(* hold one entry per run; toks[r] is the curToken run r has seen at the   *)
(* head of the loop, step after step.  The package-level tables            *)
(* `precedences` and `keywords` are only ever read, they are the constant  *)
(* definitions of this module.                                             *)

Runs == {1, 2}

LxNew == S(<<"n", "e", "w">>)

\* the source texts of the runs
RunInputs ==
    {Join(<<LxClass, LxIdentC, LxLBrace, LxRBrace, LxNew, LxIdentC, LxSemicolon>>),
     Join(<<LxVarC, LxAssign, LxInt1, LxSemicolon, LxNew, LxIdentB, LxSemicolon>>),
     Join(<<LxPhpOpen, LxFunction, LxIdentF, LxLParen, LxRParen, LxLBrace,
            LxNew, LxIdentC, LxSemicolon, LxRBrace>>),
     LxIf}

\* the mutation that hands one Lexer to the Parsers of all runs
LexerOfShared(r) == 1

\* the Lexer the Parser of run r points to: lexer := New(input); NewParser(lexer)
LexerOf(r) == r

\* one run as it starts on the Lexer lexer
StartOfRun(lexer) ==
    [l |-> lexer, p |-> NoParser, program |-> <<>>, sa |-> NoAnalyzer, visited |-> 0,
     pc |-> "new", toks |-> <<>>]

\* the calls of a parsing step of run have returned ps
RunReturned(run, ps, statements) ==
    IF ps.panicked THEN [run EXCEPT !.pc = "panicked"]
    ELSE [run EXCEPT !.l = ps.l,
                     !.p = [curToken |-> ps.curToken, peekToken |-> ps.peekToken,
                            errors |-> ps.errors],
                     !.program = statements,
                     !.pc = "parse",
                     !.toks = Append(@, ps.curToken)]

\* the next step of a run that is parsing, as a function of the objects it works on:
\* NewParser, or one iteration of the loop of ParseProgram, or its return
ParseStep(run) ==
    LET here == [l |-> run.l, curToken |-> run.p.curToken, peekToken |-> run.p.peekToken,
                 errors |-> run.p.errors, panicked |-> FALSE]
    IN  CASE run.pc = "new" ->
                 RunReturned(run, call("NewParser", <<run.l>>), run.program)
          [] run.pc = "parse" /\ run.p.curToken.Type = "EOF" ->
                 IF run.p.errors # <<>> THEN [run EXCEPT !.pc = "failed"]
                 ELSE [run EXCEPT !.sa = NewSemanticAnalyzer, !.pc = "analyze"]
          [] run.pc = "parse" /\ run.p.curToken.Type \in {"PHP_OPEN", "PHP_CLOSE"} ->
                 RunReturned(run, call("nextToken", <<here>>), run.program)
          [] run.pc = "parse" /\ run.p.curToken.Type \notin {"EOF", "PHP_OPEN", "PHP_CLOSE"} ->
                 LET r == call("parseStatement", <<here>>)
                 IN  RunReturned(run, call("nextToken", <<r.p>>),
                                 IF IsNilInterface(r.n) THEN run.program
                                 ELSE Append(run.program, r.n))

\* the next step of a run that is analysing: the visit of the next top-level
\* statement, or ValidateReferences after the last
AnalyzeStep(run) ==
    IF run.visited < Len(run.program)
    THEN [run EXCEPT !.sa = visitStatement(@, run.program[run.visited + 1]),
                     !.visited = @ + 1]
    ELSE [run EXCEPT !.sa = ValidateReferences(@), !.pc = "validated"]

RunStep(run) == IF run.pc = "analyze" THEN AnalyzeStep(run) ELSE ParseStep(run)

\* a run from its start to its end with nothing else going on
RECURSIVE RunToEnd(_)
RunToEnd(run) ==
    IF run.pc \in {"validated", "failed", "panicked"} THEN run ELSE RunToEnd(RunStep(run))

RunAlone == [input \in RunInputs |-> RunToEnd(StartOfRun(call("New", <<input>>)))]

\* the objects run r works on
RunOf(r) ==
    [l |-> l[LexerOf(r)], p |-> p[r], program |-> program[r], sa |-> sa[r],
     visited |-> visited[r], pc |-> pc[r], toks |-> toks[r]]

InitRuns ==
    /\ l \in [Runs -> {call("New", <<input>>) : input \in RunInputs}]
    /\ toks = [r \in Runs |-> <<>>]
    /\ p = [r \in Runs |-> NoParser]
    /\ program = [r \in Runs |-> <<>>]
    /\ sa = [r \in Runs |-> NoAnalyzer]
    /\ visited = [r \in Runs |-> 0]
    /\ pc = [r \in Runs |-> "new"]

\* run r has taken the step that leaves its objects as in next
Stepped(r, next) ==
    /\ l' = [l EXCEPT ![LexerOf(r)] = next.l]
    /\ toks' = [toks EXCEPT ![r] = next.toks]
    /\ p' = [p EXCEPT ![r] = next.p]
    /\ program' = [program EXCEPT ![r] = next.program]
    /\ sa' = [sa EXCEPT ![r] = next.sa]
    /\ visited' = [visited EXCEPT ![r] = next.visited]
    /\ pc' = [pc EXCEPT ![r] = next.pc]

\* NewParser or one iteration of the loop of ParseProgram, in run r
RunParses(r) ==
    /\ pc[r] \in {"new", "parse"}
    /\ \E next \in {ParseStep(RunOf(r))} : Stepped(r, next)

\* the visit of one top-level statement or ValidateReferences, in run r
RunAnalyzes(r) ==
    /\ pc[r] = "analyze"
    /\ \E next \in {AnalyzeStep(RunOf(r))} : Stepped(r, next)

NextRuns ==
    \/ \E r \in Runs : RunParses(r)
    \/ \E r \in Runs : RunAnalyzes(r)

SpecRuns == InitRuns /\ [][NextRuns]_vars

\* s is the beginning of t
IsPrefix(s, t) == Len(s) <= Len(t) /\ SubSeq(t, 1, Len(s)) = s

\* run r is where the run of its source text is when it runs alone
AsAlone(r) ==
    LET alone == RunAlone[l[r].input]
    IN  /\ IsPrefix(toks[r], alone.toks)
        /\ IsPrefix(program[r], alone.program)
        /\ pc[r] \in {"validated", "failed", "panicked"} => RunOf(r) = alone

-----------------------------------------------------------------------------
(* Properties of the symbol table and of the analysis *)

\* the table st with the scope s as the active scope
InScope(st, s) == [st EXCEPT !.CurrentScope = s]

\* C18: when the imports of the active scope map a name to the fully qualified name
\* of a declared symbol of the requested type, ResolveSymbol returns that symbol,
\* whatever the scopes and the current namespace declare under the name.
C18_ImportsTakePrecedence ==
    LET st == sa.SymbolTable
    IN  \A s \in DOMAIN st.scopes :
            \A name \in DOMAIN st.scopes[s].Imports :
                \A symbolType \in SymbolTypes :
                    LET fqn == st.scopes[s].Imports[name]
                    IN  Declared(st.AllSymbols, fqn, symbolType) =>
                            ResolveSymbol(InScope(st, s), name, symbolType)
                                = st.AllSymbols[fqn]

\* in the namespace b, which declares the classes c and d, the alias d of b\c was
\* looked up inside the class d and the reference was resolved to b\c
C18_Witness ==
    LET st == sa.SymbolTable
    IN  /\ pc = "validated"
        /\ Declared(st.AllSymbols, LxQualifiedBC, CLASS_SYMBOL)
        /\ Declared(st.AllSymbols, LxQualifiedBD, CLASS_SYMBOL)
        /\ \E s \in DOMAIN st.scopes :
              /\ st.scopes[s].Type = "method"
              /\ st.scopes[s].Namespace = LxIdentB
              /\ LxIdentD \in DOMAIN st.scopes[s].Imports
              /\ st.scopes[s].Imports[LxIdentD] = LxQualifiedBC
              /\ Declared(st.scopes[st.scopes[st.scopes[s].Parent].Parent].Symbols,
                          LxIdentD, CLASS_SYMBOL)
        /\ \E i \in DOMAIN st.References :
              /\ st.References[i].Name = LxIdentD
              /\ ~IsNilPointer(st.References[i].ResolvedSymbol)
              /\ st.References[i].ResolvedSymbol.FullyQualified = LxQualifiedBC

\* C21: the absolute reference "\Q" resolves, from every scope, to the declared
\* symbol of the requested type whose fully qualified name is Q.
C21_AbsoluteReference ==
    LET st == sa.SymbolTable
    IN  \A s \in DOMAIN st.scopes :
            \A fqn \in DOMAIN st.AllSymbols :
                ResolveSymbol(InScope(st, s), LxBackslash \o fqn, st.AllSymbols[fqn].Type)
                    = st.AllSymbols[fqn]

ScopesOf(st, types) == {s \in DOMAIN st.scopes : st.scopes[s].Type \in types}

C29_ClassStaysResolvable ==
    [][\A name \in SemNames :
          LET st == sa.SymbolTable
              namespace == CurrentScope(st).Namespace
              refs == sa'.SymbolTable.References
          IN  (/\ pc = "analyze"
               /\ visited < Len(program)
               /\ program[visited + 1] = NewStatement(name)
               /\ name \notin DOMAIN CurrentScope(st).Imports
               /\ \E j \in 1..visited :
                     /\ program[j].kind = "ClassDeclaration"
                     /\ program[j].Name.Value = name
                     /\ \A k \in j..visited : program[k].kind # "NamespaceDeclaration")
              => /\ Len(refs) = Len(st.References) + 1
                 /\ ~IsNilPointer(refs[Len(refs)].ResolvedSymbol)
                 /\ refs[Len(refs)].ResolvedSymbol.Type = CLASS_SYMBOL
                 /\ refs[Len(refs)].ResolvedSymbol.FullyQualified
                       = (IF namespace = <<>> THEN name
                          ELSE namespace \o LxBackslash \o name)]_vars

\* the name the import of fqn is filed under when the use statement gives no alias
LastSegment(fqn) == LET parts == Split(fqn, B("\\")) IN parts[Len(parts)]

\* C19: a top-level "new <name>" that is visited while an import "use ...\<name>" is
\* in effect adds a reference that is resolved to a symbol with the imported fully
\* qualified name, and the unresolved references do not grow, whether or not the
\* analysed program declares the imported class.
C19_ImportedClassResolved ==
    [][\A name \in SemNames :
          LET st == sa.SymbolTable
              imports == CurrentScope(st).Imports
              refs == sa'.SymbolTable.References
          IN  (/\ pc = "analyze"
               /\ visited < Len(program)
               /\ program[visited + 1] = NewStatement(name)
               /\ name \in DOMAIN imports
               /\ LastSegment(imports[name]) = name)
              => /\ Len(refs) = Len(st.References) + 1
                 /\ refs[Len(refs)].Name = name
                 /\ ~IsNilPointer(refs[Len(refs)].ResolvedSymbol)
                 /\ refs[Len(refs)].ResolvedSymbol.FullyQualified = imports[name]
                 /\ Len(GetUnresolvedReferences(sa'.SymbolTable))
                       = Len(GetUnresolvedReferences(st))]_vars

\* the namespace in effect before statement i of the program
RECURSIVE NamespaceBefore(_)
NamespaceBefore(i) ==
    IF i <= 1 THEN <<>>
    ELSE IF program[i - 1].kind = "NamespaceDeclaration" THEN program[i - 1].Name.Value
    ELSE NamespaceBefore(i - 1)

\* the references that the statements before statement i of the program add
ReferencesBefore(i) ==
    Len(visitEach(NewSemanticAnalyzer, SubSeq(program, 1, i - 1), TRUE).SymbolTable.References)

\* C20: after the analysis, the reference of a top-level "new <name>" that stands
\* before the declaration "class <name>" of the same namespace is resolved to the
\* fully qualified name of that class (no import is in effect at the reference and
\* the namespace does not change between the two).
C20_ForwardReferenceResolved ==
    pc = "validated" =>
        \A i \in DOMAIN program : \A j \in DOMAIN program : \A name \in SemNames :
            (/\ i < j
             /\ program[i] = NewStatement(name)
             /\ program[j].kind = "ClassDeclaration"
             /\ program[j].Name.Value = name
             /\ \A k \in 1..i : program[k].kind # "UseStatement"
             /\ \A k \in i..j : program[k].kind # "NamespaceDeclaration")
            => LET ref == sa.SymbolTable.References[ReferencesBefore(i) + 1]
                   namespace == NamespaceBefore(i)
               IN  /\ ref.Name = name
                   /\ ~IsNilPointer(ref.ResolvedSymbol)
                   /\ ref.ResolvedSymbol.FullyQualified
                         = (IF namespace = <<>> THEN name
                            ELSE namespace \o LxBackslash \o name)

=============================================================================
